---- MODULE Spec2Model ----
(***************************************************************************)
(* A model of the nucleosynth tracer pipeline: the isotope registry, the   *)
(* network/composition algebra of network.py, the extraction and cache     *)
(* layer of tracers/load_save.py (with the older load_save.py kept beside  *)
(* it), and the Tracer and Model objects built on them.                    *)
(*                                                                         *)
(* A pandas table is a record                                              *)
(*   [columns, index, isotope, data]                                       *)
(* columns : the column labels, in order                                   *)
(* index   : the row labels, in order (0-based after a fresh build)        *)
(* isotope : the text column 'isotope' of a network table, <<>> otherwise  *)
(* data    : the rows, each the sequence of the numeric cells of the row   *)
(* An optional integer argument (z=None, a=None) is a set: {} for None,    *)
(* {v} for the value v.  Abundances are exact integers (fixed point).      *)
(***************************************************************************)
EXTENDS Integers, Sequences, FiniteSets, TLC

VARIABLES
    cache,        \* the cache directory tree: file path -> pickled table
    dirs,         \* the cache directories that exist
    ncalls,       \* number of operations run so far
    call,         \* the operation that ran last: arguments and outcome
    saved,        \* key -> the table last handed to save_table_cache under it
    network,      \* Tracer.network / Model.network
    composition,  \* Tracer.composition: [X |-> table, Y |-> table]
    yields,       \* Model.yields
    skynet_columns, \* Tracer.columns['skynet']
    tracer_obj,   \* a Tracer object: its attributes and the methods it has run
    model_obj,    \* a Model object: its attributes and the methods it has run
    procs         \* process -> where its load_table call stands and what it did

vars == <<cache, dirs, ncalls, call, saved, network, composition, yields, skynet_columns,
          tracer_obj, model_obj, procs>>

None == {}
NoTable == [columns |-> <<>>, index |-> <<>>, isotope |-> <<>>, data |-> <<>>]
NoCall == [op |-> "init"]
NoObject == [class |-> "None"]
NoProcs == <<>>

(***************************************************************************)
(* Sequence helpers                                                        *)
(***************************************************************************)
Range(s) == {s[i] : i \in DOMAIN s}

RECURSIVE SeqSum(_)
SeqSum(s) == IF s = <<>> THEN 0 ELSE Head(s) + SeqSum(Tail(s))

Abs(x) == IF x < 0 THEN 0 - x ELSE x
Sign(x) == IF x < 0 THEN 0 - 1 ELSE IF x > 0 THEN 1 ELSE 0

RECURSIVE GCD(_, _)
GCD(x, y) == IF y = 0 THEN x ELSE GCD(y, x % y)

\* the float n / d as an exact value [num, den], in lowest terms with
\* den > 0; a division by zero raises nothing: den = 0 with num = 1 is
\* +inf, num = -1 is -inf, num = 0 is NaN
Quot(n, d) ==
    IF d = 0 \/ n = 0 THEN [num |-> Sign(n), den |-> IF d = 0 THEN 0 ELSE 1]
    ELSE LET g == GCD(Abs(n), Abs(d))
         IN  [num |-> (Sign(d) * n) \div g, den |-> Abs(d) \div g]

\* the float product x * q of a number and a quotient (0 * inf is NaN)
Times(x, q) == Quot(x * q.num, q.den)

NaN == Quot(0, 0)

\* a Series with a 0-based index aligned to the n rows of a table with a
\* 0-based index: a row the Series lacks is NaN, a row the table lacks is
\* dropped
Reindex(values, n) ==
    [r \in 1..n |-> IF r <= Len(values) THEN values[r] ELSE NaN]


\* the positions at which a boolean mask is TRUE, ascending
RECURSIVE MaskPositions(_, _)
MaskPositions(mask, i) ==
    IF i > Len(mask) THEN <<>>
    ELSE (IF mask[i] THEN <<i>> ELSE <<>>) \o MaskPositions(mask, i + 1)

\* the elements of a finite set of integers in ascending order (np.unique)
RECURSIVE SortedSeq(_)
SortedSeq(S) ==
    IF S = {} THEN <<>>
    ELSE LET m == CHOOSE v \in S : \A w \in S : v <= w
         IN  <<m>> \o SortedSeq(S \ {m})

\* position of a label in a sequence of labels (0 when absent)
ColumnPos(labels, name) ==
    IF \E i \in DOMAIN labels : labels[i] = name
    THEN CHOOSE i \in DOMAIN labels : labels[i] = name
    ELSE 0

(***************************************************************************)
(* Isotope registry: config/elements.py and network.get_isotope_str        *)
(***************************************************************************)
\* the static table Z -> element symbol
elements == [z \in 0..5 |-> <<"n", "h", "he", "li", "be", "b">>[z + 1]]

Raise(kind) == [ok |-> FALSE, error |-> kind, value |-> ""]
Return(v) == [ok |-> TRUE, error |-> "", value |-> v]

get_element_str(z) ==
    IF z \in DOMAIN elements
    THEN Return(elements[z])
    ELSE Raise("UnknownElement")

get_isotope_str_neutron_any_a(z, a) ==
    IF a < 1 \/ z < 0 THEN Raise("InvalidIsotope")
    ELSE LET element == get_element_str(z)
         IN  IF ~element.ok THEN element
             ELSE IF z = 0 THEN element
             ELSE Return(element.value \o ToString(a))

get_isotope_str(z, a) ==
    IF a < 1 \/ z < 0 THEN Raise("InvalidIsotope")
    ELSE LET element == get_element_str(z)
         IN  IF ~element.ok THEN element
             ELSE IF z = 0
                  THEN (IF a = 1 THEN element ELSE Raise("InvalidIsotope"))
                  ELSE Return(element.value \o ToString(a))

(***************************************************************************)
(* Tables                                                                  *)
(***************************************************************************)
RaiseT(kind) == [ok |-> FALSE, error |-> kind, table |-> NoTable]
ReturnT(t) == [ok |-> TRUE, error |-> "", table |-> t]

NRows(t) == Len(t.data)
NCols(t) == IF "isotope" \in Range(t.columns)
            THEN Len(t.columns) - 1 ELSE Len(t.columns)

\* table[name] for a numeric column: the cells of that column, row by row
Column(t, name) ==
    LET p == ColumnPos(t.columns, name) - (Len(t.columns) - NCols(t))
    IN  [i \in 1..NRows(t) |-> t.data[i][p]]

\* table[mask]: the rows at the given positions, labels kept
TakeRows(t, pos) ==
    [columns |-> t.columns,
     index   |-> [k \in 1..Len(pos) |-> t.index[pos[k]]],
     isotope |-> IF t.isotope = <<>> THEN <<>>
                 ELSE [k \in 1..Len(pos) |-> t.isotope[pos[k]]],
     data    |-> [k \in 1..Len(pos) |-> t.data[pos[k]]]]

\* table.iloc[:, cols] with 0-based integer positions cols
ILocColumns(t, cols) ==
    [columns |-> [k \in 1..Len(cols) |-> t.columns[cols[k] + 1]],
     index   |-> t.index,
     isotope |-> <<>>,
     data    |-> [r \in 1..NRows(t) |->
                     [k \in 1..Len(cols) |-> t.data[r][cols[k] + 1]]]]

\* np.sum(table, axis=1): one sum per row
RowSums(t) == [r \in 1..NRows(t) |-> SeqSum(t.data[r])]

\* table[name] = values: a new last column, or new cells for an old one
SetColumn(t, name, values) ==
    IF name \in Range(t.columns)
    THEN [t EXCEPT !.data = [r \in 1..NRows(t) |->
             [t.data[r] EXCEPT ![ColumnPos(t.columns, name)] = values[r]]]]
    ELSE [t EXCEPT !.columns = Append(t.columns, name),
                   !.data = [r \in 1..NRows(t) |-> Append(t.data[r], values[r])]]

(***************************************************************************)
(* network.py: selection                                                   *)
(***************************************************************************)
select_isotopes_or(isotope_table, a, z) ==
    IF z = None /\ a = None THEN RaiseT("MissingSelector")
    ELSE LET zs == Column(isotope_table, "Z")
             as == Column(isotope_table, "A")
             mask == [i \in 1..NRows(isotope_table) |-> zs[i] \in z \/ as[i] \in a]
         IN  ReturnT(TakeRows(isotope_table, MaskPositions(mask, 1)))

select_isotopes_no_check(isotope_table, a, z) ==
    LET zs == Column(isotope_table, "Z")
        as == Column(isotope_table, "A")
        mask == [i \in 1..NRows(isotope_table) |->
                    IF z = None \/ a = None
                    THEN zs[i] \in z \/ as[i] \in a
                    ELSE zs[i] \in z /\ as[i] \in a]
    IN  ReturnT(TakeRows(isotope_table, MaskPositions(mask, 1)))

select_isotopes(isotope_table, a, z) ==
    IF z = None /\ a = None THEN RaiseT("MissingSelector")
    ELSE LET zs == Column(isotope_table, "Z")
             as == Column(isotope_table, "A")
             z_mask == [i \in 1..NRows(isotope_table) |-> zs[i] \in z]
             a_mask == [i \in 1..NRows(isotope_table) |-> as[i] \in a]
             mask == [i \in 1..NRows(isotope_table) |->
                         IF z = None \/ a = None
                         THEN z_mask[i] \/ a_mask[i]
                         ELSE z_mask[i] /\ a_mask[i]]
         IN  ReturnT(TakeRows(isotope_table, MaskPositions(mask, 1)))

select_composition(composition_table, tracer_network, z, a) ==
    LET sub_net == select_isotopes(tracer_network, a, z)
    IN  IF ~sub_net.ok THEN sub_net
        ELSE IF \E k \in DOMAIN sub_net.table.index :
                    sub_net.table.index[k] + 1 \notin 1..NCols(composition_table)
        THEN RaiseT("IndexError")
        ELSE ReturnT(ILocColumns(composition_table, sub_net.table.index))

(***************************************************************************)
(* network.py: composition                                                 *)
(***************************************************************************)
get_x_times_z(y_table, tracer_network) ==
    LET z == Column(tracer_network, "Z")
    IN  IF Len(z) # NCols(y_table) THEN RaiseT("ValueError")
        ELSE ReturnT([y_table EXCEPT !.data =
                 [r \in 1..NRows(y_table) |->
                     [i \in 1..NCols(y_table) |-> y_table.data[r][i] * z[i]]]])

get_x(y_table, tracer_network) ==
    LET a == Column(tracer_network, "A")
    IN  IF Len(a) # NCols(y_table) THEN RaiseT("ValueError")
        ELSE ReturnT([y_table EXCEPT !.data =
                 [r \in 1..NRows(y_table) |->
                     [i \in 1..NCols(y_table) |-> y_table.data[r][i] * a[i]]]])

\* get_ye with the mass numbers as weights
get_ye_times_a(y_table, tracer_network) ==
    LET a == Column(tracer_network, "A")
    IN  IF Len(a) # NCols(y_table) THEN Raise("ValueError")
        ELSE Return([r \in 1..NRows(y_table) |->
                 SeqSum([i \in 1..NCols(y_table) |-> y_table.data[r][i] * a[i]])])

\* zy = y_table.multiply(z); np.sum(zy, axis=1): a series, one value per row
get_ye(y_table, tracer_network) ==
    LET z == Column(tracer_network, "Z")
    IN  IF Len(z) # NCols(y_table) THEN Raise("ValueError")
        ELSE Return([r \in 1..NRows(y_table) |->
                 SeqSum([i \in 1..NCols(y_table) |-> y_table.data[r][i] * z[i]])])

(***************************************************************************)
(* Binary floating point.  The cells of a composition table are floats: a  *)
(* float is [m, e], the number m * 2^e with Precision significant bits     *)
(* (2^(Precision-1) <= m < 2^Precision, or m = 0), and every operation     *)
(* rounds its exact result to the nearest float, ties to the even m.       *)
(***************************************************************************)
Precision == 3

RECURSIVE Pow2(_)
Pow2(k) == IF k = 0 THEN 1 ELSE 2 * Pow2(k - 1)

RECURSIVE BitLen(_)
BitLen(n) == IF n = 0 THEN 0 ELSE 1 + BitLen(n \div 2)

\* the float nearest to n * 2^e, for a natural number n
RoundTo(n, e) ==
    IF n = 0 THEN [m |-> 0, e |-> 0]
    ELSE IF BitLen(n) <= Precision
    THEN [m |-> n * Pow2(Precision - BitLen(n)), e |-> e - (Precision - BitLen(n))]
    ELSE LET k == BitLen(n) - Precision
             q == n \div Pow2(k)
             rem == n % Pow2(k)
             up == rem > Pow2(k - 1) \/ (rem = Pow2(k - 1) /\ q % 2 = 1)
         IN  IF up /\ q + 1 = Pow2(Precision)
             THEN [m |-> Pow2(Precision - 1), e |-> e + k + 1]
             ELSE [m |-> IF up THEN q + 1 ELSE q, e |-> e + k]

\* the float product of a float and a mass or charge number
fl_mul(x, a) == RoundTo(x.m * a, x.e)

\* get_x with the charge numbers as factors
get_x_float_times_z(y_table, tracer_network) ==
    LET z == Column(tracer_network, "Z")
    IN  IF Len(z) # NCols(y_table) THEN RaiseT("ValueError")
        ELSE ReturnT([y_table EXCEPT !.data =
                 [r \in 1..NRows(y_table) |->
                     [i \in 1..NCols(y_table) |-> fl_mul(y_table.data[r][i], z[i])]]])

\* get_x of a table whose cells are floats: y_table.multiply(a) rounds every
\* product
get_x_float(y_table, tracer_network) ==
    LET a == Column(tracer_network, "A")
    IN  IF Len(a) # NCols(y_table) THEN RaiseT("ValueError")
        ELSE ReturnT([y_table EXCEPT !.data =
                 [r \in 1..NRows(y_table) |->
                     [i \in 1..NCols(y_table) |-> fl_mul(y_table.data[r][i], a[i])]]])

\* np.sum(y_table, axis=1)
get_sumy(y_table) == Return(RowSums(y_table))

\* get_abar with a guard against a zero sum
get_abar_guarded(y_table) ==
    IF \E r \in 1..NRows(y_table) : RowSums(y_table)[r] = 0
    THEN Raise("ZeroDivisionError")
    ELSE Return([r \in 1..NRows(y_table) |-> Quot(1, RowSums(y_table)[r])])

\* sumy = get_sumy(y_table); 1 / sumy
get_abar(y_table) ==
    Return([r \in 1..NRows(y_table) |-> Quot(1, get_sumy(y_table).value[r])])

\* get_zbar that computes ye whether or not one is supplied
get_zbar_own_ye(y_table, tracer_network, ye, abar) ==
    LET product(ye1, abar1) ==
            IF ~ye1.ok THEN ye1
            ELSE Return([r \in 1..Len(ye1.value) |->
                            Times(ye1.value[r], abar1.value[r])])
    IN  product(get_ye(y_table, tracer_network),
                IF abar = None THEN get_abar(y_table)
                ELSE Return(CHOOSE s \in abar : TRUE))

\* ye and abar are None or {series}
get_zbar(y_table, tracer_network, ye, abar) ==
    LET \* ye * abar: the rows of either Series, NaN where one lacks the row
        product(ye1, abar1) ==
            IF ~ye1.ok THEN ye1
            ELSE Return([r \in 1..(IF Len(ye1.value) > Len(abar1.value)
                                    THEN Len(ye1.value) ELSE Len(abar1.value)) |->
                            IF r <= Len(ye1.value) /\ r <= Len(abar1.value)
                            THEN Times(ye1.value[r], abar1.value[r])
                            ELSE NaN])
    IN  product(IF ye = None THEN get_ye(y_table, tracer_network)
                ELSE Return(CHOOSE s \in ye : TRUE),
                IF abar = None THEN get_abar(y_table)
                ELSE Return(CHOOSE s \in abar : TRUE))

(***************************************************************************)
(* network.py: most abundant isotopes                                      *)
(***************************************************************************)
\* composition_table.max(): the largest cell of column i (tables with rows)
ColumnMax(t, i) ==
    CHOOSE v \in {t.data[r][i] : r \in 1..NRows(t)} :
        \A r \in 1..NRows(t) : t.data[r][i] <= v

\* DataFrame.nlargest(n, column) with keep='first': positions of the n
\* largest values in decreasing order, equal values in their original order
RECURSIVE nlargest(_, _, _)
nlargest(values, remaining, n) ==
    IF n <= 0 \/ remaining = {} THEN <<>>
    ELSE LET p == CHOOSE q \in remaining : \A w \in remaining :
                      \/ values[q] > values[w]
                      \/ values[q] = values[w] /\ q <= w
         IN  <<p>> \o nlargest(values, remaining \ {p}, n - 1)

\* the call's outcome and the caller's tracer_network object after the call
MostAbundant(isotopes, n, tracer_network) ==
    [ok |-> TRUE, error |-> "",
     table |-> TakeRows(isotopes,
                   nlargest(Column(isotopes, "max_value"), 1..NRows(isotopes), n)),
     tracer_network |-> tracer_network]

\* as get_most_abundant, but the column is attached to tracer_network itself
get_most_abundant_no_copy(composition_table, tracer_network, n) ==
    IF NCols(composition_table) # NRows(tracer_network)
    THEN [ok |-> FALSE, error |-> "ValueError", table |-> NoTable,
          tracer_network |-> tracer_network]
    ELSE LET labelled(isotopes) == MostAbundant(isotopes, n, isotopes)
         IN  labelled(SetColumn(tracer_network, "max_value",
                         [i \in 1..NRows(tracer_network) |->
                             ColumnMax(composition_table, i)]))

\* as get_most_abundant, but equal values are taken last-encountered first
get_most_abundant_keep_last(composition_table, tracer_network, n) ==
    IF NCols(composition_table) # NRows(tracer_network)
    THEN [ok |-> FALSE, error |-> "ValueError", table |-> NoTable,
          tracer_network |-> tracer_network]
    ELSE LET isotopes == SetColumn(tracer_network, "max_value",
                             [i \in 1..NRows(tracer_network) |->
                                 ColumnMax(composition_table, i)])
             rev(pos) == [k \in 1..Len(pos) |-> NRows(isotopes) + 1 - pos[k]]
             values == Column(isotopes, "max_value")
         IN  [ok |-> TRUE, error |-> "",
              table |-> TakeRows(isotopes,
                            rev(nlargest([k \in 1..NRows(isotopes) |->
                                             values[NRows(isotopes) + 1 - k]],
                                         1..NRows(isotopes), n))),
              tracer_network |-> tracer_network]

get_most_abundant(composition_table, tracer_network, n) ==
    IF NCols(composition_table) # NRows(tracer_network)
    THEN [ok |-> FALSE, error |-> "ValueError", table |-> NoTable,
          tracer_network |-> tracer_network]
    ELSE LET copied(isotopes) == MostAbundant(isotopes, n, tracer_network)
         IN  copied(SetColumn(tracer_network, "max_value",
                        [i \in 1..NRows(tracer_network) |->
                            ColumnMax(composition_table, i)]))

\* as get_sums_loop, but with both selectors set to the group value
RECURSIVE get_sums_loop_both(_, _, _, _, _, _, _, _)
get_sums_loop_both(composition_table, tracer_network, iso_group, unique, i, a, z, sums) ==
    IF i > Len(unique) THEN ReturnT(sums)
    ELSE LET val == unique[i]
             subset == select_composition(composition_table, tracer_network,
                                          {val}, {val})
         IN  IF ~subset.ok THEN subset
             ELSE get_sums_loop_both(composition_table, tracer_network, iso_group,
                     unique, i + 1, {val}, {val},
                     [columns |-> Append(sums.columns, val),
                      index   |-> composition_table.index,
                      isotope |-> <<>>,
                      data    |-> [r \in 1..NRows(composition_table) |->
                                      Append(IF sums.data = <<>> THEN <<>>
                                             ELSE sums.data[r],
                                             RowSums(subset.table)[r])]])

\* the loop of get_sums from position i on; a and z carry over between
\* iterations as the local variables of the function do
RECURSIVE get_sums_loop(_, _, _, _, _, _, _, _)
get_sums_loop(composition_table, tracer_network, iso_group, unique, i, a, z, sums) ==
    IF i > Len(unique) THEN ReturnT(sums)
    ELSE LET val == unique[i]
             a1 == IF iso_group = "A" THEN {val} ELSE a
             z1 == IF iso_group = "A" THEN z ELSE {val}
             subset == select_composition(composition_table, tracer_network, z1, a1)
         IN  IF ~subset.ok THEN subset
             ELSE get_sums_loop(composition_table, tracer_network, iso_group,
                     unique, i + 1, a1, z1,
                     [columns |-> Append(sums.columns, val),
                      index   |-> composition_table.index,
                      isotope |-> <<>>,
                      data    |-> [r \in 1..NRows(composition_table) |->
                                      Append(IF sums.data = <<>> THEN <<>>
                                             ELSE sums.data[r],
                                             RowSums(subset.table)[r])]])

get_sums(composition_table, tracer_network, iso_group) ==
    get_sums_loop(composition_table, tracer_network, iso_group,
                  SortedSeq(Range(Column(tracer_network, iso_group))),
                  1, None, None, NoTable)

(***************************************************************************)
(* network.py: yields                                                      *)
(***************************************************************************)
\* sum over the tracers of (last row of composition[abu_var])[i] / n_tracers
RECURSIVE yield_sum(_, _, _, _)
yield_sum(tracers, abu_var, i, n_tracers) ==
    IF tracers = <<>> THEN 0
    ELSE LET table == Head(tracers)[abu_var]
             last_row == table.data[NRows(table)]
         IN  (last_row[i] \div n_tracers)
                 + yield_sum(Tail(tracers), abu_var, i, n_tracers)

get_yields(tracers, tracer_network) ==
    LET n_tracers == Len(tracers)
    IN  [columns |-> tracer_network.columns \o <<"X", "Y">>,
         index   |-> tracer_network.index,
         isotope |-> tracer_network.isotope,
         data    |-> [i \in 1..NRows(tracer_network) |->
                         tracer_network.data[i]
                             \o <<yield_sum(tracers, "X", i, n_tracers),
                                  yield_sum(tracers, "Y", i, n_tracers)>>]]

\* the table tracer_network after get_yields.  The yields frame is
\* pd.DataFrame(tracer_network), and whether that frame has columns of its
\* own is up to the pandas in use: before pandas 2.0 the new frame is handed
\* the block manager of tracer_network itself, so that yields[abu_var] = 0.0
\* adds the column to tracer_network too; from 2.0 on it gets a shallow copy.
get_yields_network(tracers, tracer_network) ==
    {tracer_network, get_yields(tracers, tracer_network)}

\* as get_yield_sums_loop, but with both selectors set to the group value
RECURSIVE get_yield_sums_loop_both(_, _, _, _, _, _, _)
get_yield_sums_loop_both(yield_table, iso_group, group_unique, i, a, z, rows) ==
    IF i > Len(group_unique) THEN ReturnT(
            [columns |-> <<iso_group, "X", "Y">>,
             index   |-> [k \in 1..Len(rows) |-> k - 1],
             isotope |-> <<>>,
             data    |-> rows])
    ELSE LET val == group_unique[i]
             subset == select_isotopes(yield_table, {val}, {val})
         IN  IF ~subset.ok THEN subset
             ELSE get_yield_sums_loop_both(yield_table, iso_group, group_unique,
                     i + 1, {val}, {val},
                     Append(rows, <<val,
                                    SeqSum(Column(subset.table, "X")),
                                    SeqSum(Column(subset.table, "Y"))>>))

RECURSIVE get_yield_sums_loop(_, _, _, _, _, _, _)
get_yield_sums_loop(yield_table, iso_group, group_unique, i, a, z, rows) ==
    IF i > Len(group_unique) THEN ReturnT(
            [columns |-> <<iso_group, "X", "Y">>,
             index   |-> [k \in 1..Len(rows) |-> k - 1],
             isotope |-> <<>>,
             data    |-> rows])
    ELSE LET val == group_unique[i]
             a1 == IF iso_group = "A" THEN {val} ELSE a
             z1 == IF iso_group = "A" THEN z ELSE {val}
             subset == select_isotopes(yield_table, a1, z1)
         IN  IF ~subset.ok THEN subset
             ELSE get_yield_sums_loop(yield_table, iso_group, group_unique,
                     i + 1, a1, z1,
                     Append(rows, <<val,
                                    SeqSum(Column(subset.table, "X")),
                                    SeqSum(Column(subset.table, "Y"))>>))

get_yield_sums(yield_table, iso_group) ==
    get_yield_sums_loop(yield_table, iso_group,
                        SortedSeq(Range(Column(yield_table, iso_group))),
                        1, None, None, <<>>)

(***************************************************************************)
(* tracers/extract.py: a raw dataset is a record of its fields; Z and A    *)
(* are integer arrays, Y is the 2-D abundance array (a sequence of rows).  *)
(***************************************************************************)
RangeIndex(n) == [i \in 1..n |-> i - 1]

extract_network(tracer_file) ==
    IF ~({"Z", "A"} \subseteq DOMAIN tracer_file) THEN RaiseT("MissingField")
    ELSE LET n == Len(tracer_file.Z)
             iso_str(i) == get_isotope_str(tracer_file.Z[i], tracer_file.A[i])
         IN  IF \E i \in 1..n : ~iso_str(i).ok
             THEN RaiseT(iso_str(CHOOSE i \in 1..n :
                            /\ ~iso_str(i).ok
                            /\ \A j \in 1..(i - 1) : iso_str(j).ok).error)
             ELSE ReturnT([columns |-> <<"isotope", "Z", "A">>,
                           index   |-> RangeIndex(n),
                           isotope |-> [i \in 1..n |-> iso_str(i).value],
                           data    |-> [i \in 1..n |->
                                          <<tracer_file.Z[i], tracer_file.A[i]>>]])

\* as extract_y, but fitting the array to the network: columns beyond the
\* network are dropped and absent ones filled with 0
extract_y_reindexed(tracer_file, tracer_network) ==
    IF "Y" \notin DOMAIN tracer_file THEN RaiseT("MissingField")
    ELSE LET y == tracer_file.Y
         IN  ReturnT([columns |-> tracer_network.isotope,
                      index   |-> RangeIndex(Len(y)),
                      isotope |-> <<>>,
                      data    |-> [r \in DOMAIN y |->
                                     [i \in 1..NRows(tracer_network) |->
                                         IF i <= Len(y[r]) THEN y[r][i] ELSE 0]]])

extract_y(tracer_file, tracer_network) ==
    IF "Y" \notin DOMAIN tracer_file THEN RaiseT("MissingField")
    ELSE LET y == tracer_file.Y
         IN  IF \E r \in DOMAIN y : Len(y[r]) # NRows(tracer_network)
             THEN RaiseT("ColumnCountMismatch")
             ELSE ReturnT([columns |-> tracer_network.isotope,
                           index   |-> RangeIndex(Len(y)),
                           isotope |-> <<>>,
                           data    |-> y])

(***************************************************************************)
(* paths.py.  tracers/load_save.py names the cache helpers                 *)
(* tracer_cache_filepath / tracer_cache_path; the paths.py of this         *)
(* repository defines them as cache_filepath / model_cache_path.           *)
(***************************************************************************)
repo_path == "nucleosynth"
skynet_path == "skynet"

model_path(model, directory) == skynet_path \o "/" \o directory \o "/" \o model

tracer_filename(tracer_id, tracer_step) ==
    ToString(tracer_id) \o (IF tracer_step = 1 THEN "" ELSE "_2") \o ".h5"

tracer_filepath(tracer_id, tracer_step, model) ==
    model_path(model, "output") \o "/" \o tracer_filename(tracer_id, tracer_step)

model_cache_path(model) == repo_path \o "/" \o "cache" \o "/" \o model

cache_filename_no_table_name(tracer_id, model, table_name) ==
    model \o "_tracer_" \o ToString(tracer_id) \o ".pickle"

cache_filename(tracer_id, model, table_name) ==
    table_name \o "_" \o model \o "_tracer_" \o ToString(tracer_id) \o ".pickle"

cache_filepath(tracer_id, model, table_name) ==
    model_cache_path(model) \o "/" \o cache_filename(tracer_id, model, table_name)

\* tracers/load_save.py asks paths for tracer_cache_path and
\* tracer_cache_filepath, the names paths.py has for the two functions above
\* in the revision that goes with it: one stable path for each key
tracer_cache_path(model) == model_cache_path(model)

tracer_cache_filepath(tracer_id, model, table_name) ==
    cache_filepath(tracer_id, model, table_name)

(***************************************************************************)
(* config/tables_config.py                                                 *)
(***************************************************************************)
config_columns ==
    <<"Time", "Density", "Temperature", "Ye", "HeatingRate", "Entropy">>

column_scales == [temperature |-> 1000000000]

\* str.lower() on the field names in use
lower(column) ==
    CASE column = "Time" -> "time"
      [] column = "Density" -> "density"
      [] column = "Temperature" -> "temperature"
      [] column = "Ye" -> "ye"
      [] column = "HeatingRate" -> "heatingrate"
      [] column = "Entropy" -> "entropy"
      [] OTHER -> column

(***************************************************************************)
(* The raw SkyNet output: the .h5 files on disk, by path.  Model s12 has   *)
(* tracers 1 and 2, model s15 has tracer 1.  A step 1 file carries the     *)
(* network n, h1, h2 and two time rows, a step 2 file the mass numbers     *)
(* 1, 2, 3 (n, h2, h3) and one time row.  Some                             *)
(* files are damaged: step 2 of tracer 2 of s12 is absent; step 2 of       *)
(* tracer 1 of s15 lacks Temperature and has a Y array of two columns.     *)
(* Temperatures are 1 or 2 (GK), so that the scaled value fits 32 bits.    *)
(***************************************************************************)
TracerIds == {1, 2}
Models == {"s12", "s15"}
Steps == {1, 2}
TableNames == {"columns", "network", "X", "Y"}
Tracers == {<<1, "s12">>, <<2, "s12">>, <<1, "s15">>}

ModelNumber(model) == IF model = "s12" THEN 1 ELSE 2
StepRows(tracer_step) == IF tracer_step = 1 THEN 2 ELSE 1

RawDataset(tracer_id, tracer_step, model) ==
    LET m == ModelNumber(model)
        n == StepRows(tracer_step)
        seed == tracer_id + 2 * tracer_step + 4 * m
        damaged == model = "s15" /\ tracer_step = 2
        field(f) == [r \in 1..n |-> f + 10 * r + 100 * seed]
        ncols == IF damaged THEN 2 ELSE 3
        full == [Z |-> <<0, 1, 1>>,
                 A |-> IF tracer_step = 1 THEN <<1, 1, 2>> ELSE <<1, 2, 3>>,
                 Y |-> [r \in 1..n |-> [i \in 1..ncols |-> (seed + r + i) % 3]],
                 Time |-> field(1), Density |-> field(2),
                 Temperature |-> [r \in 1..n |-> ((seed + r) % 2) + 1],
                 Ye |-> field(4),
                 HeatingRate |-> field(5), Entropy |-> field(6)]
    IN  IF damaged
        THEN [f \in DOMAIN full \ {"Temperature"} |-> full[f]]
        ELSE full

RawFiles ==
    LET present == {<<t, st, m>> \in TracerIds \X Steps \X Models :
                       /\ <<t, m>> \in Tracers
                       /\ ~(m = "s12" /\ t = 2 /\ st = 2)}
        path(k) == tracer_filepath(k[1], k[2], k[3])
    IN  [p \in {path(k) : k \in present} |->
            LET k == CHOOSE k \in present : path(k) = p
            IN  RawDataset(k[1], k[2], k[3])]

(***************************************************************************)
(* tracers/load_save.py: files                                             *)
(***************************************************************************)
NoFiles == <<>>

\* load_file for each step in order; the first absent file raises
load_files(tracer_id, model, tracer_steps, tracer_files) ==
    IF tracer_files # NoFiles
    THEN [ok |-> TRUE, error |-> "", files |-> tracer_files, opened |-> {}]
    ELSE LET path(i) == tracer_filepath(tracer_id, tracer_steps[i], model)
             missing == {i \in DOMAIN tracer_steps : path(i) \notin DOMAIN RawFiles}
         IN  IF missing # {}
             THEN LET first == CHOOSE i \in missing : \A j \in missing : i <= j
                  IN  [ok |-> FALSE, error |-> "DatasetNotFound", files |-> NoFiles,
                       opened |-> {path(i) : i \in 1..(first - 1)}]
             ELSE [ok |-> TRUE, error |-> "",
                   files |-> [st \in Range(tracer_steps) |->
                                 RawFiles[tracer_filepath(tracer_id, st, model)]],
                   opened |-> {path(i) : i \in DOMAIN tracer_steps}]

(***************************************************************************)
(* tracers/extract.py: columns                                             *)
(***************************************************************************)
scaled(col_low, values) ==
    IF col_low \in DOMAIN column_scales
    THEN [r \in DOMAIN values |-> values[r] * column_scales[col_low]]
    ELSE values

extract_columns(tracer_file, columns) ==
    LET cols == IF columns = <<>> THEN config_columns ELSE columns
    IN  IF \E k \in DOMAIN cols : cols[k] \notin DOMAIN tracer_file
        THEN RaiseT("MissingField")
        ELSE LET n == IF cols = <<>> THEN 0 ELSE Len(tracer_file[cols[1]])
                 cells(k) == scaled(lower(cols[k]), tracer_file[cols[k]])
             IN  ReturnT([columns |-> [k \in DOMAIN cols |-> lower(cols[k])],
                          index   |-> RangeIndex(n),
                          isotope |-> <<>>,
                          data    |-> [r \in 1..n |->
                                          [k \in DOMAIN cols |-> cells(k)[r]]]])

(***************************************************************************)
(* tracers/load_save.py: extraction.  An extraction returns                *)
(*   [ok, error, table, opened, reads]                                     *)
(* opened : the raw file paths it opened                                   *)
(* reads  : the <<step, field>> arrays it read from the raw files          *)
(***************************************************************************)
Extracted(r, opened, reads) ==
    [ok |-> r.ok, error |-> r.error, table |-> r.table,
     opened |-> opened, reads |-> reads]

\* as concat_rows, but the tables of the later steps come first
RECURSIVE concat_rows_reversed(_)
concat_rows_reversed(step_tables) ==
    IF step_tables = <<>> THEN <<>>
    ELSE concat_rows_reversed(Tail(step_tables)) \o Head(step_tables).data

\* pd.concat(step_tables, ignore_index=True) of tables with equal columns
RECURSIVE concat_rows(_)
concat_rows(step_tables) ==
    IF step_tables = <<>> THEN <<>>
    ELSE Head(step_tables).data \o concat_rows(Tail(step_tables))

concat(step_tables) ==
    IF step_tables = <<>> THEN RaiseT("ValueError")
    ELSE ReturnT([columns |-> step_tables[1].columns,
                  index   |-> RangeIndex(Len(concat_rows(step_tables))),
                  isotope |-> <<>>,
                  data    |-> concat_rows(step_tables)])

\* the fields of a file that the extraction of one step's table reads
StepReads(tracer_file, step, table_name, columns) ==
    IF table_name = "Y"
    THEN {<<step, "Y">>} \cap ({step} \X DOMAIN tracer_file)
    ELSE LET cols == IF columns = <<>> THEN config_columns ELSE columns
         IN  {<<step, cols[k]>> : k \in {k \in DOMAIN cols :
                 \A j \in 1..k : cols[j] \in DOMAIN tracer_file}}

\* the loop over tracer_steps of extract_table, from position i on
RECURSIVE extract_steps(_, _, _, _, _, _, _, _)
extract_steps(tracer_files, tracer_steps, table_name, columns, tracer_network, i, step_tables, reads) ==
    LET next(table, reads1) ==
            IF ~table.ok THEN Extracted(table, {}, reads1)
            ELSE extract_steps(tracer_files, tracer_steps, table_name,
                               columns, tracer_network, i + 1,
                               Append(step_tables, table.table), reads1)
        of_file(step, tracer_file) ==
            next(IF table_name = "columns"
                 THEN extract_columns(tracer_file, columns)
                 ELSE extract_y(tracer_file, tracer_network),
                 reads \cup StepReads(tracer_file, step, table_name, columns))
    IN  IF i > Len(tracer_steps) THEN Extracted(concat(step_tables), {}, reads)
        ELSE IF tracer_steps[i] \notin DOMAIN tracer_files
        THEN Extracted(RaiseT("KeyError"), {}, reads)
        ELSE of_file(tracer_steps[i], tracer_files[tracer_steps[i]])

extract_table(tracer_id, tracer_steps, model, table_name, columns, tracer_files, tracer_network, y_table) ==
    LET \* the table of the requested kind, the files and the network in hand
        of_kind(files, opened, net, net_reads) ==
            LET with_opened(t) == Extracted(t, opened, t.reads)
                to_x(y) == IF ~y.ok THEN Extracted(y, opened, y.reads)
                           ELSE Extracted(get_x(y.table, net.table), opened, y.reads)
            IN  IF ~net.ok \/ table_name = "network"
                THEN Extracted(net, opened, net_reads)
                ELSE IF table_name = "X"
                THEN to_x(IF y_table = NoTable
                          THEN extract_steps(files, tracer_steps, "Y", columns,
                                             net.table, 1, <<>>, net_reads)
                          ELSE Extracted(ReturnT(y_table), {}, net_reads))
                ELSE IF table_name \in {"columns", "Y"}
                THEN with_opened(extract_steps(files, tracer_steps, table_name,
                                      columns, net.table, 1, <<>>, net_reads))
                ELSE Extracted(RaiseT("ValueError"), opened, net_reads)
        \* tracer_network = extract_network(tracer_files[tracer_steps[0]])
        with_files(lf) ==
            IF ~lf.ok THEN Extracted(RaiseT(lf.error), lf.opened, {})
            ELSE IF tracer_network # NoTable
            THEN of_kind(lf.files, lf.opened, ReturnT(tracer_network), {})
            ELSE IF tracer_steps[1] \notin DOMAIN lf.files
            THEN Extracted(RaiseT("KeyError"), lf.opened, {})
            ELSE of_kind(lf.files, lf.opened,
                         extract_network(lf.files[tracer_steps[1]]),
                         {<<tracer_steps[1], f>> :
                             f \in {"Z", "A"} \cap DOMAIN lf.files[tracer_steps[1]]})
    IN  with_files(load_files(tracer_id, model, tracer_steps, tracer_files))

(***************************************************************************)
(* tracers/load_save.py: cache                                             *)
(***************************************************************************)
\* pd.read_pickle(filepath): FileNotFoundError when the file is absent
read_pickle(c, filepath) ==
    IF filepath \in DOMAIN c THEN ReturnT(c[filepath])
    ELSE RaiseT("TableNotFound")

\* try_mkdir(path, skip=True), then table.to_pickle(filepath)
to_pickle(c, d, table, path, filepath, key) ==
    [cache |-> [f \in DOMAIN c \cup {filepath} |->
                   IF f = filepath THEN table ELSE c[f]],
     dirs  |-> d \cup {path},
     path  |-> filepath,
     key   |-> key]

\* load_table_cache that finds no file, whatever the cache holds
load_table_cache_absent(c, tracer_id, model, table_name) ==
    RaiseT("TableNotFound")

load_table_cache(c, tracer_id, model, table_name) ==
    read_pickle(c, tracer_cache_filepath(tracer_id, model, table_name))

\* check_cache_path, then table.to_pickle(filepath)
save_table_cache(c, d, table, tracer_id, model, table_name) ==
    to_pickle(c, d, table, tracer_cache_path(model),
              tracer_cache_filepath(tracer_id, model, table_name),
              <<tracer_id, model, table_name>>)

(***************************************************************************)
(* load_table.  A call returns                                             *)
(*   [ok, error, table, extracted, opened, reads, written, keys, cache,    *)
(*    dirs]                                                                *)
(* extracted : the table kinds handed to the extraction, one per call      *)
(* written   : the cache files written, in order;  keys : their keys       *)
(***************************************************************************)
Loaded(r, extracted, opened, reads, written, keys, c, d) ==
    [ok |-> r.ok, error |-> r.error, table |-> r.table,
     extracted |-> extracted, opened |-> opened, reads |-> reads,
     written |-> written, keys |-> keys, cache |-> c, dirs |-> d]

\* as save_extracted, but the table is saved whatever save says
save_extracted_always(c, d, e, kind, save, w) ==
    IF e.ok
    THEN Loaded(e, <<kind>>, e.opened, e.reads,
                <<w.path>>, <<w.key>>, w.cache, w.dirs)
    ELSE Loaded(e, <<kind>>, e.opened, e.reads, <<>>, <<>>, c, d)

\* the end of load_table: the extraction e of a table of kind `kind` has
\* run; if save: save_table_cache(table, ...), whose outcome is w
save_extracted(c, d, e, kind, save, w) ==
    IF e.ok /\ save
    THEN Loaded(e, <<kind>>, e.opened, e.reads,
                <<w.path>>, <<w.key>>, w.cache, w.dirs)
    ELSE Loaded(e, <<kind>>, e.opened, e.reads, <<>>, <<>>, c, d)

\* tracers/load_save.py load_table from  if table is None  on
extract_and_save(c, d, e, tracer_id, model, table_name, save) ==
    save_extracted(c, d, e, table_name, save,
        save_table_cache(c, d, e.table, tracer_id, model, table_name))

\* tracers/load_save.py load_table without the except clause
load_table_no_except(c, d, tracer_id, model, table_name, tracer_steps, columns, tracer_files, tracer_network, y_table, reload, save) ==
    IF ~reload
    THEN Loaded(load_table_cache(c, tracer_id, model, table_name),
                <<>>, {}, {}, <<>>, <<>>, c, d)
    ELSE extract_and_save(c, d,
             extract_table(tracer_id, tracer_steps, model, table_name,
                           columns, tracer_files, tracer_network, y_table),
             tracer_id, model, table_name, save)

\* tracers/load_save.py load_table with the reload test inverted
load_table_if_reload(c, d, tracer_id, model, table_name, tracer_steps, columns, tracer_files, tracer_network, y_table, reload, save) ==
    LET from(cached) ==
            IF reload /\ cached.ok
            THEN Loaded(cached, <<>>, {}, {}, <<>>, <<>>, c, d)
            ELSE extract_and_save(c, d,
                     extract_table(tracer_id, tracer_steps, model, table_name,
                                   columns, tracer_files, tracer_network, y_table),
                     tracer_id, model, table_name, save)
    IN  from(load_table_cache(c, tracer_id, model, table_name))

\* tracers/load_save.py load_table with a cached table used only when it is
\* what the extraction of the given steps and columns gives
load_table_revalidate(c, d, tracer_id, model, table_name, tracer_steps, columns, tracer_files, tracer_network, y_table, reload, save) ==
    LET from(cached, e) ==
            IF ~reload /\ cached.ok /\ e.ok /\ cached.table = e.table
            THEN Loaded(cached, <<>>, {}, {}, <<>>, <<>>, c, d)
            ELSE extract_and_save(c, d, e, tracer_id, model, table_name, save)
    IN  from(load_table_cache(c, tracer_id, model, table_name),
             extract_table(tracer_id, tracer_steps, model, table_name,
                           columns, tracer_files, tracer_network, y_table))

load_table(c, d, tracer_id, model, table_name, tracer_steps, columns, tracer_files, tracer_network, y_table, reload, save) ==
    LET \* try ... except FileNotFoundError: pass; then  if table is None
        from(cached) ==
            IF ~reload /\ cached.ok
            THEN Loaded(cached, <<>>, {}, {}, <<>>, <<>>, c, d)
            ELSE extract_and_save(c, d,
                     extract_table(tracer_id, tracer_steps, model, table_name,
                                   columns, tracer_files, tracer_network, y_table),
                     tracer_id, model, table_name, save)
    IN  IF table_name \notin {"columns", "network", "X", "Y"}
        THEN Loaded(RaiseT("ValueError"), <<>>, {}, {}, <<>>, <<>>, c, d)
        ELSE from(load_table_cache(c, tracer_id, model, table_name))

(***************************************************************************)
(* load_save.py: the older load_table and its extraction                   *)
(***************************************************************************)
\* the loop over tracer_steps of extract_tracer_columns, from position i on
RECURSIVE extract_tracer_columns_loop(_, _, _, _, _, _)
extract_tracer_columns_loop(tracer_steps, columns, tracer_files, i, step_tables, reads) ==
    LET of_file(step, tracer_file, reads1) ==
            IF \E k \in DOMAIN columns : columns[k] \notin DOMAIN tracer_file
            THEN Extracted(RaiseT("MissingField"), {}, reads1)
            ELSE extract_tracer_columns_loop(tracer_steps, columns,
                     tracer_files, i + 1,
                     Append(step_tables,
                        [columns |-> [k \in DOMAIN columns |-> lower(columns[k])],
                         index   |-> RangeIndex(Len(tracer_file[columns[1]])),
                         isotope |-> <<>>,
                         data    |-> [r \in 1..Len(tracer_file[columns[1]]) |->
                             [k \in DOMAIN columns |-> tracer_file[columns[k]][r]]]]),
                     reads1)
        of_step(step) ==
            IF tracer_files = NoFiles
            THEN Extracted(RaiseT("TypeError"), {}, reads)
            ELSE IF step \notin DOMAIN tracer_files
            THEN Extracted(RaiseT("KeyError"), {}, reads)
            ELSE of_file(step, tracer_files[step],
                         reads \cup StepReads(tracer_files[step], step,
                                              "columns", columns))
    IN  IF i > Len(tracer_steps) THEN Extracted(concat(step_tables), {}, reads)
        ELSE of_step(tracer_steps[i])

extract_tracer_columns(tracer_id, tracer_steps, model, columns, tracer_files) ==
    extract_tracer_columns_loop(tracer_steps,
        IF columns = <<>> THEN config_columns ELSE columns,
        tracer_files, 1, <<>>, {})

load_save_load_table_cache(c, tracer_id, model, table_name) ==
    read_pickle(c, cache_filepath(tracer_id, model, table_name))

\* check_model_cache_path, then table.to_pickle(filepath)
load_save_save_table_cache(c, d, table, tracer_id, model, table_name) ==
    to_pickle(c, d, table, model_cache_path(model),
              cache_filepath(tracer_id, model, table_name),
              <<tracer_id, model, table_name>>)

\* load_save.py load_table from  if table is None  on: the columns table is
\* extracted and save_table_cache is called with 'columns'
load_save_extract_and_save(c, d, e, tracer_id, model, save) ==
    save_extracted(c, d, e, "columns", save,
        load_save_save_table_cache(c, d, e.table, tracer_id, model, "columns"))

load_save_load_table(c, d, tracer_id, model, table_name, tracer_steps, columns, tracer_files, reload, save) ==
    LET from(cached) ==
            IF ~reload /\ cached.ok
            THEN Loaded(cached, <<>>, {}, {}, <<>>, <<>>, c, d)
            ELSE load_save_extract_and_save(c, d,
                     extract_tracer_columns(tracer_id, tracer_steps, model,
                                            columns, tracer_files),
                     tracer_id, model, save)
    IN  from(load_save_load_table_cache(c, tracer_id, model, table_name))

(***************************************************************************)
(* STIR input files (paths.py, tracers/load_save.py): for each tracer the   *)
(* file holds the mass coordinate on its first line and a table below it.  *)
(***************************************************************************)
stir_filename(tracer_id, model) == model \o "_" \o ToString(tracer_id) \o ".dat"

stir_filepath(tracer_id, model) ==
    model_path(model, "input") \o "/" \o stir_filename(tracer_id, model)

stir_columns == <<"time", "temperature", "density", "radius", "ye",
                  "enue", "enua", "fnue", "fnua">>

\* the mass coordinates of a model are evenly spaced
StirFiles ==
    [p \in {stir_filepath(k[1], k[2]) : k \in Tracers} |->
        LET k == CHOOSE k \in Tracers : stir_filepath(k[1], k[2]) = p
        IN  [mass  |-> 10 * ModelNumber(k[2]) + 2 * k[1],
             table |-> <<[c \in DOMAIN stir_columns |-> c + k[1]]>>]]

load_stir_tracer(tracer_id, model) ==
    IF stir_filepath(tracer_id, model) \notin DOMAIN StirFiles
    THEN RaiseT("FileNotFoundError")
    ELSE ReturnT([columns |-> stir_columns, index |-> <<0>>, isotope |-> <<>>,
                  data |-> StirFiles[stir_filepath(tracer_id, model)].table])

get_stir_mass_element(tracer_id, model) ==
    IF stir_filepath(tracer_id, model) \notin DOMAIN StirFiles
    THEN Raise("FileNotFoundError")
    ELSE Return(StirFiles[stir_filepath(tracer_id, model)].mass)

(***************************************************************************)
(* tracers/load_save.py: composition and composition sums.  A call returns *)
(* [ok, error, value, cache, dirs].                                        *)
(***************************************************************************)
Outcome(r, value, c, d) ==
    [ok |-> r.ok, error |-> r.error, value |-> value, cache |-> c, dirs |-> d]

NoComposition == [X |-> NoTable, Y |-> NoTable]

\* for key in ['X', 'Y']: composition[key] = load_table(..., table_name=key),
\* from position i of the keys on
RECURSIVE load_composition_from(_, _, _, _, _, _, _, _, _, _, _)
load_composition_from(i, comp, c, d, tracer_id, tracer_steps, model, tracer_files, tracer_network, reload, save) ==
    LET keys == <<"X", "Y">>
        set(t) ==
            IF ~t.ok THEN Outcome(t, NoComposition, t.cache, t.dirs)
            ELSE load_composition_from(i + 1, [comp EXCEPT ![keys[i]] = t.table],
                     t.cache, t.dirs, tracer_id, tracer_steps, model,
                     tracer_files, tracer_network, reload, save)
    IN  IF i > Len(keys) THEN Outcome(Return(<<>>), comp, c, d)
        ELSE set(load_table(c, d, tracer_id, model, keys[i], tracer_steps, <<>>,
                            tracer_files, tracer_network, NoTable, reload, save))

load_composition(c, d, tracer_id, tracer_steps, model, tracer_files, tracer_network, reload, save) ==
    load_composition_from(1, NoComposition, c, d, tracer_id, tracer_steps, model,
                          tracer_files, tracer_network, reload, save)

\* the first pass of its loops calls network.sums_table_name(composition_type,
\* group_by=group), whose parameters are (abu_var, iso_group): TypeError
load_composition_sums_cache(c, tracer_id, model) == Raise("TypeError")

\* with reload the cache is skipped, the files, composition and network are
\* loaded where missing, and network.get_all_composition_sums, which
\* network.py does not define, is called: AttributeError
load_composition_sums(c, d, tracer_id, tracer_steps, model, tracer_files, tracer_network, composition0, reload, save) ==
    LET failed(r, c1, d1) == Outcome(r, None, c1, d1)
        sums(net) ==
            IF ~net.ok THEN failed(net, net.cache, net.dirs)
            ELSE failed(Raise("AttributeError"), net.cache, net.dirs)
        with_network(files, comp) ==
            IF ~comp.ok THEN failed(comp, comp.cache, comp.dirs)
            ELSE IF tracer_network # NoTable
            THEN failed(Raise("AttributeError"), comp.cache, comp.dirs)
            ELSE sums(load_table(comp.cache, comp.dirs, tracer_id, model,
                                 "network", tracer_steps, <<>>, files,
                                 NoTable, NoTable, reload, save))
        with_files(lf) ==
            IF ~lf.ok THEN failed(lf, c, d)
            ELSE with_network(lf.files,
                     IF composition0 # NoComposition
                     THEN Outcome(Return(<<>>), composition0, c, d)
                     ELSE load_composition(c, d, tracer_id, tracer_steps, model,
                                           lf.files, tracer_network, reload, save))
        cached(r) == IF r.ok THEN Outcome(r, r.value, c, d) ELSE failed(r, c, d)
    IN  IF ~reload
        THEN cached(load_composition_sums_cache(c, tracer_id, model))
        ELSE with_files(load_files(tracer_id, model, tracer_steps, tracer_files))

\* Tracer.load_sums calls load_save.load_sums, a name tracers/load_save.py
\* does not define; it is taken to be load_composition_sums, the function of
\* that module with the same parameters
load_sums(c, d, tracer_id, tracer_steps, model, tracer_files, tracer_network, reload, save) ==
    load_composition_sums(c, d, tracer_id, tracer_steps, model, tracer_files,
                          tracer_network, NoComposition, reload, save)

(***************************************************************************)
(* tracers/tracer.py: the Tracer object.  A method takes the cache and the *)
(* object and returns [ok, error, value, cache, dirs] with the object      *)
(* after the call as value; ran lists the methods that have returned and   *)
(* constructed tells whether __init__ has.                                 *)
(***************************************************************************)
Ran(self, method) == [self EXCEPT !.ran = Append(@, method)]

\* the method raised: the object stays as it was
Failed(kind, self, c, d) == Outcome(Raise(kind), self, c, d)

Tracer_load_files(c, d, self) ==
    LET set(lf) == IF ~lf.ok THEN Outcome(lf, self, c, d)
                   ELSE Outcome(lf, Ran([self EXCEPT !.files = lf.files],
                                        "load_files"), c, d)
    IN  set(load_files(self.tracer_id, self.model, self.steps, NoFiles))

Tracer_load_stir(c, d, self) ==
    LET set(t) == IF ~t.ok THEN Outcome(t, self, c, d)
                  ELSE Outcome(t, Ran([self EXCEPT !.stir = t.table],
                                      "load_stir"), c, d)
    IN  set(load_stir_tracer(self.tracer_id, self.model))

\* self.columns['skynet'] = columns; self.time = columns['time']
Tracer_load_columns(c, d, self) ==
    LET set(t) ==
            IF ~t.ok THEN Outcome(t, self, t.cache, t.dirs)
            ELSE IF "time" \notin Range(t.table.columns)
            THEN Failed("KeyError", [self EXCEPT !.skynet = t.table],
                        t.cache, t.dirs)
            ELSE Outcome(t, Ran([self EXCEPT !.skynet = t.table],
                                "load_columns"), t.cache, t.dirs)
    IN  set(load_table(c, d, self.tracer_id, self.model, "columns", self.steps,
                       <<>>, self.files, NoTable, NoTable, self.reload, self.save))

Tracer_load_network(c, d, self) ==
    LET set(t) == IF ~t.ok THEN Outcome(t, self, t.cache, t.dirs)
                  ELSE Outcome(t, Ran([self EXCEPT !.network = t.table],
                                      "load_network"), t.cache, t.dirs)
    IN  set(load_table(c, d, self.tracer_id, self.model, "network", self.steps,
                       <<>>, self.files, NoTable, NoTable, self.reload, self.save))

Tracer_load_composition(c, d, self) ==
    LET set(comp) ==
            IF ~comp.ok THEN Outcome(comp, self, comp.cache, comp.dirs)
            ELSE Outcome(comp, Ran([self EXCEPT !.composition = comp.value],
                                   "load_composition"), comp.cache, comp.dirs)
    IN  set(load_composition(c, d, self.tracer_id, self.steps, self.model,
                             self.files, self.network, self.reload, self.save))

Tracer_load_sums(c, d, self) ==
    LET set(sums) ==
            IF ~sums.ok THEN Outcome(sums, self, sums.cache, sums.dirs)
            ELSE Outcome(sums, Ran([self EXCEPT !.sums = sums.value],
                                   "load_sums"), sums.cache, sums.dirs)
    IN  set(load_sums(c, d, self.tracer_id, self.steps, self.model, self.files,
                      self.network, self.reload, self.save))

\* network.get_most_abundant(self.composition[abu_var],
\*     tracer_network=self.network, abu_var=abu_var): the function has no
\* parameter abu_var, so the first pass of the loop raises TypeError
Tracer_get_most_abundant(c, d, self) == Failed("TypeError", self, c, d)

\* as Tracer_get_sumy_abar, but the columns table is saved to the cache with
\* its new columns when the Tracer saves
Tracer_get_sumy_abar_saved(c, d, self) ==
    LET \* 1 / columns['sumy']; sumy is NaN in the rows that Y lacks
        abar(columns) ==
            SetColumn(columns, "abar",
                [r \in 1..NRows(columns) |->
                    IF r > NRows(self.composition.Y) THEN NaN
                    ELSE Quot(1, Column(columns, "sumy")[r])])
        save(columns) ==
            LET w == save_table_cache(c, d, columns, self.tracer_id, self.model,
                                      "columns")
            IN  Outcome(Return(<<>>),
                    Ran([self EXCEPT !.skynet = columns], "get_sumy_abar"),
                    IF self.save THEN w.cache ELSE c,
                    IF self.save THEN w.dirs ELSE d)
    IN  IF self.composition = NoComposition \/ self.skynet = NoTable
        THEN Failed("TypeError", self, c, d)
        ELSE save(abar(SetColumn(self.skynet, "sumy",
                           Reindex(get_sumy(self.composition.Y).value,
                                   NRows(self.skynet)))))

\* columns['sumy'] = get_sumy(Y); columns['abar'] = 1 / columns['sumy']
Tracer_get_sumy_abar(c, d, self) ==
    LET \* 1 / columns['sumy']; sumy is NaN in the rows that Y lacks
        abar(columns) ==
            SetColumn(columns, "abar",
                [r \in 1..NRows(columns) |->
                    IF r > NRows(self.composition.Y) THEN NaN
                    ELSE Quot(1, Column(columns, "sumy")[r])])
    IN  IF self.composition = NoComposition \/ self.skynet = NoTable
        THEN Failed("TypeError", self, c, d)
        ELSE Outcome(Return(<<>>),
                 Ran([self EXCEPT !.skynet =
                         abar(SetColumn(self.skynet, "sumy",
                                  Reindex(get_sumy(self.composition.Y).value,
                                          NRows(self.skynet))))],
                     "get_sumy_abar"), c, d)

Tracer_get_zbar(c, d, self) ==
    LET set(zbar) ==
            IF ~zbar.ok THEN Outcome(zbar, self, c, d)
            ELSE Outcome(zbar,
                     Ran([self EXCEPT !.skynet =
                             SetColumn(self.skynet, "zbar",
                                 Reindex(zbar.value, NRows(self.skynet)))],
                         "get_zbar"), c, d)
    IN  IF self.composition = NoComposition \/ self.skynet = NoTable
        THEN Failed("TypeError", self, c, d)
        ELSE set(get_zbar(self.composition.Y, self.network,
                          {Column(self.skynet, "ye")}, None))

\* total_heating is the integral of heatingrate over time (trapezoid rule);
\* max_ni56 = self.composition['X']['ni56'].max()
Tracer_get_summary(c, d, self) ==
    LET x == Column(self.skynet, "time")
        y == Column(self.skynet, "heatingrate")
        n == NRows(self.skynet)
        total_heating ==
            Quot(SeqSum([r \in 1..(n - 1) |->
                            (x[r + 1] - x[r]) * (y[r + 1] + y[r])]), 2)
    IN  IF self.skynet = NoTable THEN Failed("TypeError", self, c, d)
        ELSE IF self.composition = NoComposition
        THEN Failed("TypeError", [self EXCEPT !.total_heating = {total_heating}],
                    c, d)
        ELSE IF "ni56" \notin Range(self.composition.X.columns)
        THEN Failed("KeyError", [self EXCEPT !.total_heating = {total_heating}],
                    c, d)
        ELSE Outcome(Return(<<>>),
                 Ran([self EXCEPT !.total_heating = {total_heating}],
                     "get_summary"), c, d)

\* Tracer.select_composition(abu_var, z=z, a=a): the subset is returned and
\* the Tracer keeps its tables
Tracer_select_composition(c, d, self, abu_var, z, a) ==
    IF self.composition = NoComposition \/ self.network = NoTable
    THEN Failed("TypeError", self, c, d)
    ELSE Outcome(select_composition(self.composition[abu_var], self.network,
                                    z, a), self, c, d)

\* Tracer.select_network(z=z, a=a)
Tracer_select_network(c, d, self, z, a) ==
    IF (z # None \/ a # None) /\ self.network = NoTable
    THEN Failed("TypeError", self, c, d)
    ELSE Outcome(select_isotopes(self.network, a, z), self, c, d)

\* the selections made on a Tracer: select_composition('X', z=1) and
\* select_network(z=1)
Tracer_select_calls == {"select_composition", "select_network"}

\* the calls of Tracer.load_all, in order
Tracer_load_all_calls ==
    <<"load_files", "load_stir", "load_columns", "load_network",
      "load_composition", "load_sums", "get_most_abundant", "get_sumy_abar",
      "get_zbar", "get_summary">>

\* a method of the Tracer by name; load_all makes its calls from position i
\* on, and the first one that raises ends it
RECURSIVE Tracer_call(_, _, _, _, _)
Tracer_call(method, i, c, d, self) ==
    LET next(r) == IF ~r.ok THEN r
                   ELSE Tracer_call("load_all", i + 1, r.cache, r.dirs, r.value)
    IN
    CASE method = "load_all" ->
            IF i > Len(Tracer_load_all_calls)
            THEN Outcome(Return(<<>>), Ran(self, "load_all"), c, d)
            ELSE next(Tracer_call(Tracer_load_all_calls[i], 1, c, d, self))
      [] method = "load_files" -> Tracer_load_files(c, d, self)
      [] method = "load_stir" -> Tracer_load_stir(c, d, self)
      [] method = "load_columns" -> Tracer_load_columns(c, d, self)
      [] method = "load_network" -> Tracer_load_network(c, d, self)
      [] method = "load_composition" -> Tracer_load_composition(c, d, self)
      [] method = "load_sums" -> Tracer_load_sums(c, d, self)
      [] method = "get_most_abundant" -> Tracer_get_most_abundant(c, d, self)
      [] method = "get_sumy_abar" -> Tracer_get_sumy_abar(c, d, self)
      [] method = "get_zbar" -> Tracer_get_zbar(c, d, self)
      [] method = "get_summary" -> Tracer_get_summary(c, d, self)
      [] method = "select_composition" ->
            Tracer_select_composition(c, d, self, "X", {1}, None)
      [] method = "select_network" -> Tracer_select_network(c, d, self, {1}, None)

Tracer_load_all(c, d, self) == Tracer_call("load_all", 1, c, d, self)

\* Tracer.__init__
Tracer_init(c, d, tracer_id, model, load_all, steps, save, reload) ==
    LET new(mass) ==
            [class |-> "Tracer", tracer_id |-> tracer_id, model |-> model,
             steps |-> steps, save |-> save, reload |-> reload,
             files |-> NoFiles, network |-> NoTable,
             composition |-> NoComposition, sums |-> None,
             most_abundant |-> None, total_heating |-> None,
             skynet |-> NoTable, stir |-> NoTable, mass |-> mass,
             ran |-> <<>>, constructed |-> FALSE]
        construct(mass) ==
            IF ~mass.ok THEN Outcome(mass, NoObject, c, d)
            ELSE IF load_all THEN Tracer_load_all(c, d, new(mass.value))
            ELSE Outcome(Return(<<>>), new(mass.value), c, d)
    IN  construct(get_stir_mass_element(tracer_id, model))

(***************************************************************************)
(* models/model.py: the Model object, and the helpers of tools.py and      *)
(* tracers/load_save.py it calls.  tracer_ids is given as                  *)
(* [int |-> n] for an integer or [list |-> ids] for a sequence.            *)
(***************************************************************************)
\* tools.expand_sequence: an integer n stands for 0 .. n-1
expand_sequence(x) ==
    IF "list" \in DOMAIN x THEN x.list ELSE [i \in 1..x.int |-> i - 1]

\* the loop of get_stir_mass_grid from position i on
RECURSIVE get_stir_mass_grid_loop(_, _, _, _)
get_stir_mass_grid_loop(tracer_ids, model, i, mass_grid) ==
    LET add(mass) == IF ~mass.ok THEN mass
                     ELSE get_stir_mass_grid_loop(tracer_ids, model, i + 1,
                                                  Append(mass_grid, mass.value))
    IN  IF i > Len(tracer_ids) THEN Return(mass_grid)
        ELSE add(get_stir_mass_element(tracer_ids[i], model))

get_stir_mass_grid(tracer_ids, model) ==
    get_stir_mass_grid_loop(expand_sequence(tracer_ids), model, 1, <<>>)

\* dict.fromkeys(tracer_ids): the keys in the order of their first occurrence
Keys(tracer_ids) ==
    MaskPositions([i \in DOMAIN tracer_ids |->
                      \A j \in 1..(i - 1) : tracer_ids[j] # tracer_ids[i]], 1)

\* self.mass_grid = get_stir_mass_grid(self.tracer_ids, model=self.model,
\*     verbose=self.verbose): the parameters of get_stir_mass_grid are
\* (tracer_ids, model), so the call raises TypeError and mass_grid, dmass and
\* total_mass keep the value None
Model_load_mass_grid(c, d, self) == Failed("TypeError", self, c, d)

\* the network of the first tracer id, then get_network_unique
Model_load_network(c, d, self) ==
    LET set(t) == IF ~t.ok THEN Outcome(t, self, t.cache, t.dirs)
                  ELSE Outcome(t, Ran([self EXCEPT !.network = t.table],
                                      "load_network"), t.cache, t.dirs)
    IN  IF self.tracer_ids = <<>> THEN Failed("IndexError", self, c, d)
        ELSE set(load_table(c, d, self.tracer_ids[1], self.model, "network",
                            self.tracer_steps, <<>>, NoFiles, NoTable, NoTable,
                            self.reload, self.save))

\* self.tracers[tracer_id] = Tracer(tracer_id, self.model, steps=..., ...)
Model_load_tracer(c, d, self, tracer_id) ==
    LET set(t) ==
            IF ~t.ok THEN Outcome(t, self, t.cache, t.dirs)
            ELSE Outcome(t, Ran([self EXCEPT !.tracers[tracer_id] =
                                    [t.value EXCEPT !.constructed = TRUE]],
                                <<"load_tracer", tracer_id>>), t.cache, t.dirs)
    IN  set(Tracer_init(c, d, tracer_id, self.model, TRUE, self.tracer_steps,
                        self.save, self.reload))

\* for tracer_id in self.tracers, from position i of the keys on; with
\* only_missing it is the loop of check_loaded, which skips a loaded tracer
RECURSIVE Model_load_tracers_from(_, _, _, _, _)
Model_load_tracers_from(i, c, d, self, only_missing) ==
    LET keys == Keys(self.tracer_ids)
        next(r) == IF ~r.ok THEN r
                   ELSE Model_load_tracers_from(i + 1, r.cache, r.dirs, r.value,
                                                only_missing)
    IN  IF i > Len(keys) THEN Outcome(Return(<<>>), self, c, d)
        ELSE IF only_missing /\ self.tracers[self.tracer_ids[keys[i]]] # NoObject
        THEN Model_load_tracers_from(i + 1, c, d, self, only_missing)
        ELSE next(Model_load_tracer(c, d, self, self.tracer_ids[keys[i]]))

\* self.columns = list(self.tracers[self.tracer_ids[0]].columns.columns)
Model_get_columns(c, d, self) ==
    IF self.tracer_ids = <<>> THEN Failed("IndexError", self, c, d)
    ELSE Failed("AttributeError", self, c, d)

\* self.check_loaded(), whose outcome is checked, then
\* self.yields = network.get_yields(self.tracers, self.network);
\* self.yields['msun'] = self.yields['X'] * self.total_mass
Model_get_yields(c, d, checked) ==
    LET keys(s) == Keys(s.tracer_ids)
        msun(s, yield_table) ==
            IF s.total_mass = None
            THEN Failed("TypeError", [s EXCEPT !.yields = yield_table], c, d)
            ELSE Outcome(Return(<<>>),
                     Ran([s EXCEPT !.yields =
                            SetColumn(yield_table, "msun",
                                [i \in 1..NRows(yield_table) |->
                                    Column(yield_table, "X")[i]
                                        * (CHOOSE m \in s.total_mass : TRUE)])],
                         "get_yields"), c, d)
        compute(r) ==
            IF ~r.ok THEN r
            ELSE LET out == msun(r.value,
                                get_yields([k \in 1..Len(keys(r.value)) |->
                                    r.value.tracers[r.value.tracer_ids[
                                        keys(r.value)[k]]].composition],
                                    r.value.network))
                 IN  [out EXCEPT !.cache = r.cache, !.dirs = r.dirs]
    IN  compute(checked)

\* self.check_loaded(), whose outcome is checked, then
\* self.yield_sums = network.get_all_yield_sums(self.yields);
\* then table['msun'] = table['X'] * self.total_mass for both groups
Model_get_yield_sums(c, d, checked) ==
    LET both(s, by_a, by_z) ==
            IF ~by_a.ok THEN Outcome(by_a, s, c, d)
            ELSE IF ~by_z.ok THEN Outcome(by_z, s, c, d)
            ELSE Failed("TypeError",
                        [s EXCEPT !.yield_sums = {[A |-> by_a.table,
                                                   Z |-> by_z.table]}], c, d)
        compute(r) ==
            IF ~r.ok THEN r
            ELSE IF r.value.yields = NoTable
            THEN Failed("TypeError", r.value, r.cache, r.dirs)
            ELSE LET out == both(r.value, get_yield_sums(r.value.yields, "A"),
                                 get_yield_sums(r.value.yields, "Z"))
                 IN  [out EXCEPT !.cache = r.cache, !.dirs = r.dirs]
    IN  compute(checked)

\* the calls of Model.load_all, in order
Model_load_all_calls ==
    <<"load_mass_grid", "load_network", "load_tracers", "get_columns",
      "get_yields", "get_yield_sums">>

\* a method of the Model by name; load_all makes its calls from position i
\* on, and the first one that raises ends it
RECURSIVE Model_call(_, _, _, _, _)
Model_call(method, i, c, d, self) ==
    LET next(r) == IF ~r.ok THEN r
                   ELSE Model_call("load_all", i + 1, r.cache, r.dirs, r.value)
        \* the loop over self.tracers that the method starts with
        with_tracers(r) ==
            CASE method = "load_tracers" ->
                    IF ~r.ok THEN r
                    ELSE Outcome(r, Ran(r.value, "load_tracers"), r.cache, r.dirs)
              [] method = "get_yields" -> Model_get_yields(c, d, r)
              [] method = "get_yield_sums" -> Model_get_yield_sums(c, d, r)
    IN
    CASE method = "load_all" ->
            IF i > Len(Model_load_all_calls)
            THEN Outcome(Return(<<>>), Ran(self, "load_all"), c, d)
            ELSE next(Model_call(Model_load_all_calls[i], 1, c, d, self))
      [] method = "load_mass_grid" -> Model_load_mass_grid(c, d, self)
      [] method = "load_network" -> Model_load_network(c, d, self)
      [] method = "get_columns" -> Model_get_columns(c, d, self)
      [] OTHER -> with_tracers(Model_load_tracers_from(1, c, d, self,
                                   method # "load_tracers"))

Model_load_all(c, d, self) == Model_call("load_all", 1, c, d, self)

\* Model.__init__
Model_init(c, d, model, tracer_ids, tracer_steps, reload, save, load_all) ==
    LET new(ids) ==
            [class |-> "Model", model |-> model, tracer_ids |-> ids,
             n_tracers |-> Len(ids), tracer_steps |-> tracer_steps,
             reload |-> reload, save |-> save, network |-> NoTable,
             yields |-> NoTable, yield_sums |-> None, mass_grid |-> None,
             dmass |-> None, total_mass |-> None, columns |-> None,
             tracers |-> [k \in Range(ids) |-> NoObject],
             ran |-> <<>>, constructed |-> FALSE]
    IN  IF load_all THEN Model_load_all(c, d, new(expand_sequence(tracer_ids)))
        ELSE Outcome(Return(<<>>), new(expand_sequence(tracer_ids)), c, d)

(***************************************************************************)
(* Specification of the cache layer: a bounded number of calls of the two  *)
(* load_table functions and of the cache helpers against one cache         *)
(* directory, which starts empty.                                          *)
(***************************************************************************)
MaxCalls == 2

StepLists == {<<1>>, <<1, 2>>}
ColumnLists(table_name) ==
    IF table_name = "columns" THEN {<<>>, <<"Time", "Temperature">>} ELSE {<<>>}

\* Tracer.files after Tracer.load_files with steps (1, 2), when both exist
TracerFiles(tracer_id, model) ==
    load_files(tracer_id, model, <<1, 2>>, NoFiles).files

\* the table handed to save_table_cache directly: for each kind, what the
\* extraction gives for the first step of tracer 2 of model s12
SampleTable(table_name) ==
    extract_table(2, <<1>>, "s12", table_name, <<>>, NoFiles, NoTable, NoTable).table

Record(saved_now, keys, table) ==
    [k \in DOMAIN saved_now \cup Range(keys) |->
        IF k \in Range(keys) THEN table ELSE saved_now[k]]

Init ==
    /\ cache = <<>>
    /\ dirs = {}
    /\ ncalls = 0
    /\ call = NoCall
    /\ saved = <<>>
    /\ tracer_obj = NoObject
    /\ model_obj = NoObject
    /\ procs = NoProcs
    /\ network = NoTable
    /\ composition = [X |-> NoTable, Y |-> NoTable]
    /\ yields = NoTable
    /\ skynet_columns = NoTable

Called(op, tracer_id, model, table_name, tracer_steps, columns, reload, save, r) ==
    [op |-> op, tracer_id |-> tracer_id, model |-> model,
     table_name |-> table_name, tracer_steps |-> tracer_steps,
     columns |-> columns, reload |-> reload, save |-> save,
     ok |-> r.ok, error |-> r.error, table |-> r.table,
     extracted |-> r.extracted, opened |-> r.opened, reads |-> r.reads,
     written |-> r.written]

\* tracers/load_save.py load_table with tracer_files=None, as Model.load_network
\* calls it
LoadTable ==
    /\ ncalls < MaxCalls
    /\ \E tracer_id \in TracerIds, model \in Models, table_name \in TableNames,
          tracer_steps \in StepLists, reload \in BOOLEAN, save \in BOOLEAN :
          \E columns \in ColumnLists(table_name) :
             /\ <<tracer_id, model>> \in Tracers
             /\ \E r \in {load_table(cache, dirs, tracer_id, model, table_name,
                              tracer_steps, columns, NoFiles, NoTable, NoTable,
                              reload, save)} :
                  /\ ncalls' = ncalls + 1
                  /\ call' = Called("load_table", tracer_id, model, table_name,
                                    tracer_steps, columns, reload, save, r)
                  /\ cache' = r.cache
                  /\ dirs' = r.dirs
                  /\ saved' = Record(saved, r.keys, r.table)
                  /\ UNCHANGED <<network, composition, yields, skynet_columns, tracer_obj, model_obj, procs>>

\* load_save.py load_table for the first step, handed the open files of
\* the tracer when they exist (tracer_files=None otherwise)
LoadSaveLoadTable ==
    /\ ncalls < MaxCalls
    /\ \E tracer_id \in TracerIds, model \in Models,
          table_name \in {"columns", "network"},
          reload \in BOOLEAN, save \in BOOLEAN :
             /\ <<tracer_id, model>> \in Tracers
             /\ \E r \in {load_save_load_table(cache, dirs, tracer_id, model,
                              table_name, <<1>>, <<>>,
                              TracerFiles(tracer_id, model), reload, save)} :
                  /\ ncalls' = ncalls + 1
                  /\ call' = Called("load_save.load_table", tracer_id, model,
                                    table_name, <<1>>, <<>>, reload, save, r)
                  /\ cache' = r.cache
                  /\ dirs' = r.dirs
                  /\ saved' = Record(saved, r.keys, r.table)
                  /\ UNCHANGED <<network, composition, yields, skynet_columns, tracer_obj, model_obj, procs>>

SaveTableCache ==
    /\ ncalls < MaxCalls
    /\ \E tracer_id \in TracerIds, model \in Models, table_name \in TableNames :
          /\ <<tracer_id, model>> \in Tracers
          /\ \E w \in {save_table_cache(cache, dirs, SampleTable(table_name),
                                        tracer_id, model, table_name)} :
               /\ ncalls' = ncalls + 1
               /\ call' = Called("save_table_cache", tracer_id, model, table_name,
                                 <<>>, <<>>, FALSE, TRUE,
                                 Loaded(ReturnT(SampleTable(table_name)), <<>>, {},
                                        {}, <<w.path>>, <<w.key>>, w.cache, w.dirs))
               /\ cache' = w.cache
               /\ dirs' = w.dirs
               /\ saved' = Record(saved, <<w.key>>, SampleTable(table_name))
               /\ UNCHANGED <<network, composition, yields, skynet_columns, tracer_obj, model_obj, procs>>

LoadTableCache ==
    /\ ncalls < MaxCalls
    /\ \E tracer_id \in TracerIds, model \in Models, table_name \in TableNames :
          /\ <<tracer_id, model>> \in Tracers
          /\ ncalls' = ncalls + 1
          /\ call' = Called("load_table_cache", tracer_id, model, table_name,
                            <<>>, <<>>, FALSE, FALSE,
                            Loaded(load_table_cache(cache, tracer_id, model,
                                                    table_name),
                                   <<>>, {}, {}, <<>>, <<>>, cache, dirs))
          /\ UNCHANGED <<cache, dirs, saved, network, composition, yields, skynet_columns, tracer_obj, model_obj, procs>>

Next ==
    \/ LoadTable
    \/ LoadSaveLoadTable
    \/ SaveTableCache
    \/ LoadTableCache

Spec == Init /\ [][Next]_vars

\* the key and the cache file of the call that ran last
CallKey(c) == <<c.tracer_id, c.model, c.table_name>>
CallPath(c) == cache_filepath(c.tracer_id, c.model, c.table_name)
LoadTableOps == {"load_table", "load_save.load_table"}

\* C1: a load_table call with reload=False whose key is present in the cache
\* returns exactly the stored table, extracts nothing (opens and reads no raw
\* dataset) and writes nothing to the cache, whatever steps and columns it
\* was given.
C1_CacheHit ==
    [][(/\ call'.op \in LoadTableOps
        /\ ~call'.reload
        /\ CallKey(call') \in DOMAIN saved)
       => (/\ call'.ok
           /\ call'.table = saved[CallKey(call')]
           /\ call'.extracted = <<>>
           /\ call'.opened = {}
           /\ call'.reads = {}
           /\ call'.written = <<>>
           /\ cache' = cache
           /\ saved' = saved)]_vars

\* a hit for steps (1, 2) that returned a stored table other than the one
\* the extraction would have given
C1_Witness ==
    /\ call.op = "load_table"
    /\ ~call.reload
    /\ CallKey(call) \in DOMAIN saved
    /\ call.ok
    /\ call.tracer_steps = <<1, 2>>
    /\ call.table = saved[CallKey(call)]
    /\ call.extracted = <<>>
    /\ call.table # extract_table(call.tracer_id, call.tracer_steps, call.model,
                        call.table_name, call.columns, NoFiles, NoTable,
                        NoTable).table

\* C2: a load_table call (of either load_save module) that does not use the
\* cache (key absent, or reload=True), has save=True and returns a table, runs
\* exactly one extraction, of the requested kind, and writes the cache exactly
\* once, under the requested key, so that the entry of that key is the
\* returned table.
C2_ExtractAndSave ==
    [][(/\ call'.op \in LoadTableOps
        /\ call'.save
        /\ call'.ok
        /\ (call'.reload \/ CallPath(call') \notin DOMAIN cache))
       => (/\ call'.extracted = <<call'.table_name>>
           /\ call'.written = <<CallPath(call')>>
           /\ CallPath(call') \in DOMAIN cache'
           /\ cache'[CallPath(call')] = call'.table)]_vars

\* C3: every table handed to save_table_cache is what load_table_cache gives
\* back for its key, as long as that key is not written again: a write to one
\* key changes the table of no other key, and a load_table_cache call of a
\* saved key returns the table that was saved.
C3_RoundTrip ==
    /\ \A k \in DOMAIN saved :
          load_table_cache(cache, k[1], k[2], k[3]) = ReturnT(saved[k])
    /\ (call.op = "load_table_cache" /\ CallKey(call) \in DOMAIN saved)
          => (call.ok /\ call.table = saved[CallKey(call)])

\* save_table_cache, then load_table_cache of the same key
C3_Witness ==
    /\ call.op = "load_table_cache"
    /\ CallKey(call) \in DOMAIN saved
    /\ call.ok
    /\ call.table = saved[CallKey(call)]
    /\ call.table # NoTable

\* C4: no load_table call ends with the cache-miss error; a call that misses
\* the cache (or reloads) ends as its extraction ends: with the extracted
\* table, or with the error the extraction raised.
C4_MissRecovered ==
    [][(call'.op = "load_table")
       => (/\ call'.error # "TableNotFound"
           /\ (call'.reload \/ CallPath(call') \notin DOMAIN cache)
              => (\E e \in {extract_table(call'.tracer_id, call'.tracer_steps,
                                call'.model, call'.table_name, call'.columns,
                                NoFiles, NoTable, NoTable)} :
                     /\ call'.ok = e.ok
                     /\ call'.error = e.error
                     /\ e.ok => call'.table = e.table
                     /\ ~e.ok => (cache' = cache /\ call'.written = <<>>)))]_vars

\* a cache miss followed by an extraction that raised: the error reached the
\* caller
C4_Witness ==
    /\ call.op = "load_table"
    /\ ~call.reload
    /\ CallPath(call) \notin DOMAIN cache
    /\ ~call.ok
    /\ call.error \in {"DatasetNotFound", "MissingField"}
    /\ call.extracted = <<call.table_name>>

\* C21: once a key holds a table, a load_table call for that key with
\* reload=False returns the table the cache holds and leaves the cache as it
\* is, and so would the call with any other steps or columns: the result
\* depends on the key and the cache alone, also when the table was built from
\* other steps or columns than the ones given.
C21_StaleCache ==
    [][(/\ call'.op = "load_table"
        /\ ~call'.reload
        /\ CallPath(call') \in DOMAIN cache)
       => (/\ call'.ok
           /\ call'.table = cache[CallPath(call')]
           /\ cache' = cache
           /\ \A tracer_steps \in StepLists :
                 \A columns \in ColumnLists("columns") :
                    load_table(cache, dirs, call'.tracer_id, call'.model,
                               call'.table_name, tracer_steps, columns, NoFiles,
                               NoTable, NoTable, FALSE, call'.save).table
                        = call'.table)]_vars

\* a columns table built from steps (1, 2) with the configured columns,
\* returned to a call for step (1) and the columns Time and Temperature
C21_Witness ==
    /\ call.op = "load_table"
    /\ ~call.reload
    /\ call.ok
    /\ call.extracted = <<>>
    /\ call.table_name = "columns"
    /\ call.tracer_steps = <<1>>
    /\ call.columns = <<"Time", "Temperature">>
    /\ Len(call.table.columns) = Len(config_columns)
    /\ NRows(call.table) = StepRows(1) + StepRows(2)

\* C23: a load_table call changes the cache at most at the file of the
\* requested key, and only by storing the table it extracted and returns, with
\* save=True; a call that finds the key (reload=False), has save=False or ends
\* with an error of the extraction leaves every cache file as it was.
C23_CacheFrame ==
    [][(call'.op = "load_table")
       => (/\ DOMAIN cache \subseteq DOMAIN cache'
           /\ DOMAIN cache' \subseteq DOMAIN cache \cup {CallPath(call')}
           /\ \A f \in DOMAIN cache \ {CallPath(call')} : cache'[f] = cache[f]
           /\ (\/ ~call'.reload /\ CallPath(call') \in DOMAIN cache
               \/ ~call'.save
               \/ ~call'.ok)
              => (cache' = cache /\ call'.written = <<>>)
           /\ cache' # cache
              => (/\ call'.save
                  /\ call'.ok
                  /\ call'.extracted = <<call'.table_name>>
                  /\ cache'[CallPath(call')] = call'.table))]_vars

\* a call with save=True whose extraction raised MissingField, against a
\* cache that holds tables: nothing was written
C23_Witness ==
    /\ call.op = "load_table"
    /\ call.save
    /\ ~call.ok
    /\ call.error = "MissingField"
    /\ call.extracted = <<call.table_name>>
    /\ call.written = <<>>
    /\ DOMAIN cache # {}
    /\ \A k \in DOMAIN saved : load_table_cache(cache, k[1], k[2], k[3]).ok

\* the values of one field in the raw files of the given steps, joined in
\* step order (no values for a file or a field that is absent)
RECURSIVE RawField(_, _, _, _)
RawField(tracer_id, model, tracer_steps, field) ==
    IF tracer_steps = <<>> THEN <<>>
    ELSE LET path == tracer_filepath(tracer_id, Head(tracer_steps), model)
             here == IF path \notin DOMAIN RawFiles THEN <<>>
                     ELSE IF field \notin DOMAIN RawFiles[path] THEN <<>>
                     ELSE RawFiles[path][field]
         IN  here \o RawField(tracer_id, model, Tail(tracer_steps), field)

\* C29: the columns table a load_table call (of either load_save module)
\* returns holds every requested field under its lower-cased name, with the
\* raw values of the given steps joined in order, each multiplied once by the
\* scale configured for the field (temperature: 1e9) when there is one, be
\* the table extracted or read from the cache.
C29_ScaledColumns ==
    (call.op \in LoadTableOps /\ call.table_name = "columns" /\ call.ok) =>
        LET cols == IF call.columns = <<>> THEN config_columns ELSE call.columns
            raw(k) == RawField(call.tracer_id, call.model, call.tracer_steps,
                               cols[k])
            scale(k) == IF lower(cols[k]) \in DOMAIN column_scales
                        THEN column_scales[lower(cols[k])] ELSE 1
        IN  \A k \in DOMAIN cols :
               /\ lower(cols[k]) \in Range(call.table.columns)
               /\ Column(call.table, lower(cols[k]))
                      = [r \in DOMAIN raw(k) |-> raw(k)[r] * scale(k)]

(***************************************************************************)
(* Specification of the isotope registry: every (z, a) of a bounded grid   *)
(* is handed to get_isotope_str.                                           *)
(***************************************************************************)
MaxNeg == 2
MaxZ == 7
MaxA == 8

InitIso ==
    /\ cache = <<>>
    /\ dirs = {}
    /\ ncalls = 0
    /\ call = NoCall
    /\ saved = <<>>
    /\ tracer_obj = NoObject
    /\ model_obj = NoObject
    /\ procs = NoProcs
    /\ network = NoTable
    /\ composition = [X |-> NoTable, Y |-> NoTable]
    /\ yields = NoTable
    /\ skynet_columns = NoTable

IsotopeStr ==
    \E z \in (0 - MaxNeg)..MaxZ, a \in (0 - MaxNeg)..MaxA :
        /\ call.op = "init"
        /\ call' = [op |-> "get_isotope_str", z |-> z, a |-> a,
                    result |-> get_isotope_str(z, a)]
        /\ UNCHANGED <<cache, dirs, ncalls, saved, network, composition, yields, skynet_columns, tracer_obj, model_obj, procs>>

NextIso == IsotopeStr

SpecIso == InitIso /\ [][NextIso]_vars

\* C5: isotope_name(z, a) fails with InvalidIsotope exactly when a < 1, or
\* z < 0, or (z = 0 and a # 1); isotope_name(0, 1) is the bare neutron
\* symbol; every other pair with z registered gives the element symbol of z
\* immediately followed by a.
C5_IsotopeName ==
    call.op = "get_isotope_str" =>
        LET z == call.z
            a == call.a
            r == call.result
            invalid == a < 1 \/ z < 0 \/ (z = 0 /\ a # 1)
        IN  /\ (~r.ok /\ r.error = "InvalidIsotope") <=> invalid
            /\ (z = 0 /\ a = 1) => (r.ok /\ r.value = "n")
            /\ (~invalid /\ z > 0 /\ z \in DOMAIN elements) =>
                   (r.ok /\ r.value = elements[z] \o ToString(a))

C5_Witness ==
    /\ call.op = "get_isotope_str"
    /\ call.z = 0
    /\ call.a = 2
    /\ ~call.result.ok

(***************************************************************************)
(* Specification of the network algebra: a loaded tracer (network, X, Y)   *)
(* and the yields of a one-tracer model, drawn from bounded sets; every    *)
(* selection and composition function is applied to them.                  *)
(***************************************************************************)
MaxNet == 3
MaxVal == 1

IsoPool == {<<0, 1>>, <<1, 1>>, <<1, 2>>, <<2, 3>>}
SelZ == {None, {0}, {1}}
SelA == {None, {1}, {2}}

Networks ==
    {s \in UNION {[1..n -> IsoPool] : n \in 1..MaxNet} :
        \A i, j \in DOMAIN s : i # j => s[i] # s[j]}

\* two-row abundance arrays: a free first row and a second row shifted from it
YArrays(n) ==
    {<<row, [i \in 1..n |-> (row[i] + i) % (MaxVal + 1)]>> :
        row \in [1..n -> 0..MaxVal]}

InitNet ==
    /\ cache = <<>>
    /\ dirs = {}
    /\ ncalls = 0
    /\ call = NoCall
    /\ saved = <<>>
    /\ tracer_obj = NoObject
    /\ model_obj = NoObject
    /\ procs = NoProcs
    /\ \E s \in Networks :
          \E y \in YArrays(Len(s)) :
             LET file == [Z |-> [i \in DOMAIN s |-> s[i][1]],
                          A |-> [i \in DOMAIN s |-> s[i][2]],
                          Y |-> y]
                 net == extract_network(file).table
                 ytab == extract_y(file, net).table
                 comp == [X |-> get_x(ytab, net).table, Y |-> ytab]
             IN  /\ network = net
                 /\ composition = comp
                 /\ yields = get_yields(<<comp>>, net)
                 /\ skynet_columns = extract_columns([Ye |-> [r \in 1..Len(y) |-> r]],
                                       <<"Ye">>).table

SelectIsotopes ==
    \E z \in SelZ, a \in SelA :
        /\ call.op = "init"
        /\ call' = [op |-> "select_isotopes", abu_var |-> "", iso_group |-> "",
                    z |-> z, a |-> a,
                    result |-> select_isotopes(network, a, z)]
        /\ UNCHANGED <<cache, dirs, ncalls, saved, network, composition, yields, skynet_columns, tracer_obj, model_obj, procs>>

SelectComposition ==
    \E abu_var \in {"X", "Y"}, z \in SelZ, a \in SelA :
        /\ call.op = "init"
        /\ call' = [op |-> "select_composition", abu_var |-> abu_var, iso_group |-> "",
                    z |-> z, a |-> a,
                    result |-> select_composition(composition[abu_var], network, z, a)]
        /\ UNCHANGED <<cache, dirs, ncalls, saved, network, composition, yields, skynet_columns, tracer_obj, model_obj, procs>>

\* Tracer.select_network
TracerSelectNetwork ==
    \E z \in SelZ, a \in SelA :
        /\ call.op = "init"
        /\ call' = [op |-> "Tracer.select_network", abu_var |-> "", iso_group |-> "",
                    z |-> z, a |-> a,
                    result |-> select_isotopes(network, a, z)]
        /\ UNCHANGED <<cache, dirs, ncalls, saved, network, composition, yields, skynet_columns, tracer_obj, model_obj, procs>>

\* Tracer.select_composition
TracerSelectComposition ==
    \E abu_var \in {"X", "Y"}, z \in SelZ, a \in SelA :
        /\ call.op = "init"
        /\ call' = [op |-> "Tracer.select_composition", abu_var |-> abu_var, iso_group |-> "",
                    z |-> z, a |-> a,
                    result |-> select_composition(composition[abu_var], network, z, a)]
        /\ UNCHANGED <<cache, dirs, ncalls, saved, network, composition, yields, skynet_columns, tracer_obj, model_obj, procs>>

\* Model.select_yields
ModelSelectYields ==
    \E z \in SelZ, a \in SelA :
        /\ call.op = "init"
        /\ call' = [op |-> "Model.select_yields", abu_var |-> "", iso_group |-> "",
                    z |-> z, a |-> a,
                    result |-> select_isotopes(yields, a, z)]
        /\ UNCHANGED <<cache, dirs, ncalls, saved, network, composition, yields, skynet_columns, tracer_obj, model_obj, procs>>

GetX ==
    /\ call.op = "init"
    /\ call' = [op |-> "get_x", abu_var |-> "Y", iso_group |-> "",
                z |-> None, a |-> None,
                result |-> get_x(composition.Y, network)]
    /\ UNCHANGED <<cache, dirs, ncalls, saved, network, composition, yields, skynet_columns, tracer_obj, model_obj, procs>>

GetYe ==
    /\ call.op = "init"
    /\ call' = [op |-> "get_ye", abu_var |-> "Y", iso_group |-> "",
                z |-> None, a |-> None,
                result |-> get_ye(composition.Y, network)]
    /\ UNCHANGED <<cache, dirs, ncalls, saved, network, composition, yields, skynet_columns, tracer_obj, model_obj, procs>>

GetSumy ==
    /\ call.op = "init"
    /\ call' = [op |-> "get_sumy", abu_var |-> "Y", iso_group |-> "",
                z |-> None, a |-> None,
                result |-> get_sumy(composition.Y)]
    /\ UNCHANGED <<cache, dirs, ncalls, saved, network, composition, yields, skynet_columns, tracer_obj, model_obj, procs>>

GetAbar ==
    /\ call.op = "init"
    /\ call' = [op |-> "get_abar", abu_var |-> "Y", iso_group |-> "",
                z |-> None, a |-> None,
                result |-> get_abar(composition.Y)]
    /\ UNCHANGED <<cache, dirs, ncalls, saved, network, composition, yields, skynet_columns, tracer_obj, model_obj, procs>>

\* a ye series that is supplied is the Ye column of the tracer; an abar
\* series that is supplied is 1/2, 1/3, ...
GetZbar ==
    \E ye \in {None, {Column(skynet_columns, "ye")}},
       abar \in {None, {[r \in 1..NRows(composition.Y) |-> Quot(1, r + 1)]}} :
        /\ call.op = "init"
        /\ call' = [op |-> "get_zbar", abu_var |-> "Y", iso_group |-> "",
                    z |-> None, a |-> None, ye |-> ye, abar |-> abar,
                    result |-> get_zbar(composition.Y, network, ye, abar)]
        /\ UNCHANGED <<cache, dirs, ncalls, saved, network, composition, yields, skynet_columns, tracer_obj, model_obj, procs>>

\* Tracer.get_sumy_abar
TracerGetSumyAbar ==
    /\ call.op = "init"
    /\ \E with_sumy \in {SetColumn(skynet_columns, "sumy",
                                   get_sumy(composition.Y).value)} :
          skynet_columns' = SetColumn(with_sumy, "abar",
              [r \in 1..NRows(with_sumy) |-> Quot(1, Column(with_sumy, "sumy")[r])])
    /\ call' = [op |-> "Tracer.get_sumy_abar", abu_var |-> "Y", iso_group |-> "",
                z |-> None, a |-> None, result |-> Return(<<>>)]
    /\ UNCHANGED <<cache, dirs, ncalls, saved, network, composition, yields, tracer_obj, model_obj, procs>>

\* Tracer.get_zbar
TracerGetZbar ==
    /\ call.op = "init"
    /\ \E zbar \in {get_zbar(composition.Y, network,
                             {Column(skynet_columns, "ye")}, None)} :
          /\ skynet_columns' = IF zbar.ok
                               THEN SetColumn(skynet_columns, "zbar", zbar.value)
                               ELSE skynet_columns
          /\ call' = [op |-> "Tracer.get_zbar", abu_var |-> "Y", iso_group |-> "",
                      z |-> None, a |-> None,
                      result |-> IF zbar.ok THEN Return(<<>>) ELSE zbar]
    /\ UNCHANGED <<cache, dirs, ncalls, saved, network, composition, yields, tracer_obj, model_obj, procs>>

GetMostAbundant ==
    \E abu_var \in {"X", "Y"}, n \in 0..(MaxNet + 1) :
        /\ call.op = "init"
        /\ \E r \in {get_most_abundant(composition[abu_var], network, n)} :
              /\ network' = r.tracer_network
              /\ call' = [op |-> "get_most_abundant", abu_var |-> abu_var,
                          iso_group |-> "", z |-> None, a |-> None, n |-> n,
                          tracer_network |-> network,
                          result |-> [ok |-> r.ok, error |-> r.error,
                                      table |-> r.table]]
        /\ UNCHANGED <<cache, dirs, ncalls, saved, composition, yields, skynet_columns, tracer_obj, model_obj, procs>>

\* Tracer.get_most_abundant passes abu_var=..., a keyword that
\* network.get_most_abundant does not accept: the first call raises TypeError
TracerGetMostAbundant ==
    /\ call.op = "init"
    /\ call' = [op |-> "Tracer.get_most_abundant", abu_var |-> "X",
                iso_group |-> "", z |-> None, a |-> None,
                result |-> RaiseT("TypeError")]
    /\ UNCHANGED <<cache, dirs, ncalls, saved, network, composition, yields, skynet_columns, tracer_obj, model_obj, procs>>

GetSums ==
    \E abu_var \in {"X", "Y"}, iso_group \in {"A", "Z"} :
        /\ call.op = "init"
        /\ call' = [op |-> "get_sums", abu_var |-> abu_var, iso_group |-> iso_group,
                    z |-> None, a |-> None,
                    result |-> get_sums(composition[abu_var], network, iso_group)]
        /\ UNCHANGED <<cache, dirs, ncalls, saved, network, composition, yields, skynet_columns, tracer_obj, model_obj, procs>>

GetYieldSums ==
    \E iso_group \in {"A", "Z"} :
        /\ call.op = "init"
        /\ call' = [op |-> "get_yield_sums", abu_var |-> "", iso_group |-> iso_group,
                    z |-> None, a |-> None,
                    result |-> get_yield_sums(yields, iso_group)]
        /\ UNCHANGED <<cache, dirs, ncalls, saved, network, composition, yields, skynet_columns, tracer_obj, model_obj, procs>>

\* Model.get_yields on loaded tracers: network.get_yields(self.tracers,
\* tracer_network=self.network)
GetYields ==
    /\ call.op = "init"
    /\ yields' = get_yields(<<composition>>, network)
    /\ network' \in get_yields_network(<<composition>>, network)
    /\ call' = [op |-> "get_yields", abu_var |-> "", iso_group |-> "",
                z |-> None, a |-> None, tracer_network |-> network,
                result |-> ReturnT(get_yields(<<composition>>, network))]
    /\ UNCHANGED <<cache, dirs, ncalls, saved, composition, skynet_columns, tracer_obj, model_obj, procs>>

NextNet ==
    \/ SelectIsotopes
    \/ SelectComposition
    \/ TracerSelectNetwork
    \/ TracerSelectComposition
    \/ ModelSelectYields
    \/ GetX
    \/ GetYe
    \/ GetSumy
    \/ GetAbar
    \/ GetZbar
    \/ TracerGetSumyAbar
    \/ TracerGetZbar
    \/ GetMostAbundant
    \/ TracerGetMostAbundant
    \/ GetSums
    \/ GetYields
    \/ GetYieldSums

SpecNet == InitNet /\ [][NextNet]_vars

SelectOps == {"select_isotopes", "select_composition", "Tracer.select_network",
              "Tracer.select_composition", "Model.select_yields"}

\* C6: selection with neither z nor a raises MissingSelector and returns no
\* subset, at every entry point: network.select_isotopes,
\* network.select_composition, Tracer.select_network,
\* Tracer.select_composition and Model.select_yields.
C6_MissingSelector ==
    (call.op \in SelectOps /\ call.z = None /\ call.a = None) =>
        /\ ~call.result.ok
        /\ call.result.error = "MissingSelector"
        /\ call.result.table = NoTable

C6_Witness ==
    /\ call.op = "Model.select_yields"
    /\ call.z = None
    /\ call.a = None
    /\ call.result.error = "MissingSelector"
    /\ NRows(yields) > 1

\* the positions (ascending) of the rows of t whose Z is the given z, when
\* one is given, and whose A is the given a, when one is given
Matching(t, z, a) ==
    SortedSeq({i \in 1..NRows(t) :
                  /\ z # None => Column(t, "Z")[i] \in z
                  /\ a # None => Column(t, "A")[i] \in a})

RECURSIVE SumAt(_, _)
SumAt(S, row) ==
    IF S = {} THEN 0
    ELSE LET i == CHOOSE j \in S : TRUE
         IN  row[i] + SumAt(S \ {i}, row)

\* C7: with both z and a given, select returns exactly the network rows with
\* Z = z and A = a; with one given, exactly the rows matching that value
\* (z = 0 included); row order is kept; select_composition returns exactly
\* the composition columns at the positions of those rows, in that order.
C7_Select ==
    (call.op \in SelectOps /\ ~(call.z = None /\ call.a = None)) =>
        LET src == IF call.op = "Model.select_yields" THEN yields ELSE network
            pos == Matching(src, call.z, call.a)
            t == call.result.table
        IN  /\ call.result.ok
            /\ IF call.op \in {"select_composition", "Tracer.select_composition"}
               THEN LET c == composition[call.abu_var]
                    IN  /\ t.index = c.index
                        /\ t.columns = [k \in 1..Len(pos) |-> c.columns[pos[k]]]
                        /\ t.data = [r \in 1..NRows(c) |->
                                        [k \in 1..Len(pos) |-> c.data[r][pos[k]]]]
               ELSE /\ t.columns = src.columns
                    /\ t.index = [k \in 1..Len(pos) |-> pos[k] - 1]
                    /\ t.isotope = [k \in 1..Len(pos) |-> src.isotope[pos[k]]]
                    /\ t.data = [k \in 1..Len(pos) |-> src.data[pos[k]]]

\* both selectors given, three isotopes, exactly one of them selected while
\* another matches on Z alone and a third on A alone
C7_Witness ==
    /\ call.op = "select_composition"
    /\ call.z = {1}
    /\ call.a = {1}
    /\ call.result.ok
    /\ Len(call.result.table.columns) = 1
    /\ NRows(network) = 3
    /\ \E i \in 1..3 : network.data[i] = <<0, 1>>
    /\ \E i \in 1..3 : network.data[i] = <<1, 2>>

\* C8: get_x of a Y table and a network of equal column count has the shape
\* and labels of Y and X[r, i] = Y[r, i] * A_i; the Y table and the network
\* are not modified.
C8_MassFraction ==
    [][(call.op = "init" /\ call'.op = "get_x") =>
          LET y == composition.Y
              x == call'.result.table
              A == Column(network, "A")
          IN  /\ call'.result.ok
              /\ x.columns = y.columns
              /\ x.index = y.index
              /\ NRows(x) = NRows(y)
              /\ \A r \in 1..NRows(y) :
                    /\ Len(x.data[r]) = Len(y.data[r])
                    /\ \A i \in 1..NCols(y) : x.data[r][i] = y.data[r][i] * A[i]
              /\ composition' = composition
              /\ network' = network]_vars

C8_Witness ==
    /\ call.op = "get_x"
    /\ call.result.ok
    /\ \E i \in 1..NRows(network) :
          /\ network.data[i] = <<2, 3>>
          /\ composition.Y.data[1][i] = 1
          /\ call.result.table.data[1][i] = 3

\* C9: get_sums by A or Z has one column per distinct value v of that key in
\* the network, labelled v, the rows of the input table, and cell (r, v) the
\* sum of table[r, i] over exactly the columns i whose network row has key v.
C9_GroupedSum ==
    call.op = "get_sums" =>
        LET tab == composition[call.abu_var]
            key == Column(network, call.iso_group)
            s == call.result.table
        IN  /\ call.result.ok
            /\ Range(s.columns) = Range(key)
            /\ Len(s.columns) = Cardinality(Range(key))
            /\ s.index = tab.index
            /\ NRows(s) = NRows(tab)
            /\ \A r \in 1..NRows(tab) :
                  /\ Len(s.data[r]) = Len(s.columns)
                  /\ \A k \in 1..Len(s.columns) :
                        s.data[r][k] =
                            SumAt({i \in 1..NCols(tab) : key[i] = s.columns[k]},
                                  tab.data[r])

\* grouped by Z with a group of two isotopes, while a third isotope carries
\* the group's value in A only and has a non-zero abundance
C9_Witness ==
    /\ call.op = "get_sums"
    /\ call.iso_group = "Z"
    /\ call.result.ok
    /\ \E i, j, k \in 1..NRows(network) :
          /\ network.data[i] = <<1, 1>>
          /\ network.data[j] = <<1, 2>>
          /\ network.data[k] = <<0, 1>>
          /\ composition[call.abu_var].data[1][k] > 0

C11_Ye ==
    call.op = "get_ye" =>
        LET y == composition.Y
            Z == Column(network, "Z")
            ye == call.result.value
        IN  /\ call.result.ok
            /\ Len(ye) = NRows(y)
            /\ \A r \in 1..NRows(y) :
                  ye[r] = SumAt(1..NCols(y), [i \in 1..NCols(y) |-> Z[i] * y.data[r][i]])

\* a row where the Z-weighted sum of Y differs from the Z-weighted sum of X
\* and from the A-weighted sum of Y
C11_Witness ==
    /\ call.op = "get_ye"
    /\ call.result.ok
    /\ \E i \in 1..NRows(network) :
          network.data[i] = <<1, 2>> /\ composition.Y.data[1][i] = 1
    /\ call.result.value[1] > 0
    /\ call.result.value[1] #
          SeqSum([i \in 1..NCols(composition.X) |->
                     Column(network, "Z")[i] * composition.X.data[1][i]])


\* the sum of Z_i * Y[r, i] over the isotopes, and 1 over the sum of Y[r, i]
YeOfRow(r) ==
    SumAt(1..NCols(composition.Y),
          [i \in 1..NCols(composition.Y) |->
              Column(network, "Z")[i] * composition.Y.data[r][i]])
AbarOfRow(r) ==
    Quot(1, SumAt(1..NCols(composition.Y), composition.Y.data[r]))

\* C12: get_zbar returns ye * abar row by row; a ye or abar that is supplied
\* is used as given and one that is not is computed from the Y table (ye as
\* the sum of Z * Y, abar as 1 / sumy), so that get_zbar with no optional
\* argument equals get_zbar with both computed series passed; Tracer.get_zbar
\* stores the product of the tracer's Ye column and the computed abar.
C12_Zbar ==
    /\ call.op = "get_zbar" =>
          LET rows == 1..NRows(composition.Y)
              ye == IF call.ye = None THEN [r \in rows |-> YeOfRow(r)]
                    ELSE CHOOSE s \in call.ye : TRUE
              abar == IF call.abar = None THEN [r \in rows |-> AbarOfRow(r)]
                      ELSE CHOOSE s \in call.abar : TRUE
          IN  /\ call.result.ok
              /\ DOMAIN call.result.value = rows
              /\ \A r \in rows : call.result.value[r] = Times(ye[r], abar[r])
              /\ get_zbar(composition.Y, network, None, None) =
                    get_zbar(composition.Y, network,
                             {get_ye(composition.Y, network).value},
                             {get_abar(composition.Y).value})
    /\ call.op = "Tracer.get_zbar" =>
          /\ call.result.ok
          /\ \A r \in 1..NRows(composition.Y) :
                Column(skynet_columns, "zbar")[r] =
                    Times(Column(skynet_columns, "ye")[r], AbarOfRow(r))

\* a supplied ye that is not the computed one, with the abar computed from a
\* row of two nucleons per unit
C12_Witness ==
    /\ call.op = "get_zbar"
    /\ call.ye # None
    /\ call.abar = None
    /\ call.result.ok
    /\ YeOfRow(1) # Column(skynet_columns, "ye")[1]
    /\ AbarOfRow(1) = Quot(1, 2)
    /\ call.result.value[1] = Quot(1, 2)
    /\ call.result.value[1] # Times(YeOfRow(1), AbarOfRow(1))

\* C13: get_sumy is the row-wise sum of Y over all isotope columns and
\* get_abar is 1 / sumy row by row; where sumy is zero abar is infinite and
\* nothing is raised; Tracer.get_sumy_abar stores both as columns.
C13_SumyAbar ==
    /\ call.op = "get_sumy" =>
          /\ call.result.ok
          /\ DOMAIN call.result.value = 1..NRows(composition.Y)
          /\ \A r \in 1..NRows(composition.Y) :
                call.result.value[r] =
                    SumAt(1..NCols(composition.Y), composition.Y.data[r])
    /\ call.op = "get_abar" =>
          /\ call.result.ok
          /\ DOMAIN call.result.value = 1..NRows(composition.Y)
          /\ \A r \in 1..NRows(composition.Y) :
                /\ call.result.value[r] = AbarOfRow(r)
                /\ SumAt(1..NCols(composition.Y), composition.Y.data[r]) = 0
                      => call.result.value[r] = [num |-> 1, den |-> 0]
    /\ call.op = "Tracer.get_sumy_abar" =>
          \A r \in 1..NRows(composition.Y) :
             /\ Column(skynet_columns, "sumy")[r] =
                   SumAt(1..NCols(composition.Y), composition.Y.data[r])
             /\ Column(skynet_columns, "abar")[r] = AbarOfRow(r)

\* abar of a table with an all-zero row and a row that sums to 2
C13_Witness ==
    /\ call.op = "get_abar"
    /\ call.result.ok
    /\ \E r, q \in 1..NRows(composition.Y) :
          /\ call.result.value[r] = [num |-> 1, den |-> 0]
          /\ call.result.value[q] = [num |-> 1, den |-> 2]


\* C28: computing the yields leaves the network table as it was, with the
\* columns isotope, Z and A and its rows; the yields table is another table,
\* which holds the columns X and Y besides.
C28_NetworkReadOnly ==
    [][(call'.op = "get_yields") =>
          /\ network' = network
          /\ network'.columns = <<"isotope", "Z", "A">>
          /\ yields' # network'
          /\ yields'.columns = network.columns \o <<"X", "Y">>]_vars

(***************************************************************************)
(* Specification of the mass fractions in floating point: a Y table of one *)
(* row of floats over a network of one or two isotopes of hydrogen, and    *)
(* get_x applied to it.                                                    *)
(***************************************************************************)
MaxExp == 1
MaxMass == 5

Floats ==
    {[m |-> 0, e |-> 0]} \cup
    {[m |-> m, e |-> 0 - e] : m \in Pow2(Precision - 1)..(Pow2(Precision) - 1),
                              e \in 0..MaxExp}

FloatNetworks ==
    {s \in UNION {[1..n -> 1..MaxMass] : n \in 1..2} :
        \A i, j \in DOMAIN s : i # j => s[i] # s[j]}

InitFloat ==
    /\ cache = <<>>
    /\ dirs = {}
    /\ ncalls = 0
    /\ call = NoCall
    /\ saved = <<>>
    /\ tracer_obj = NoObject
    /\ model_obj = NoObject
    /\ procs = NoProcs
    /\ yields = NoTable
    /\ skynet_columns = NoTable
    /\ \E s \in FloatNetworks :
          \E row \in [DOMAIN s -> Floats] :
             LET file == [Z |-> [i \in DOMAIN s |-> 1], A |-> s, Y |-> <<row>>]
                 net == extract_network(file).table
             IN  /\ network = net
                 /\ composition = [X |-> NoTable, Y |-> extract_y(file, net).table]

GetXFloat ==
    /\ call.op = "init"
    /\ call' = [op |-> "get_x", result |-> get_x_float(composition.Y, network)]
    /\ UNCHANGED <<cache, dirs, ncalls, saved, network, composition, yields, skynet_columns, tracer_obj, model_obj, procs>>

NextFloat == GetXFloat

SpecFloat == InitFloat /\ [][NextFloat]_vars

\* the float quotient of a float and a mass number
fl_div(x, a) ==
    LET s == Precision + BitLen(a) + 1
        q == (x.m * Pow2(s)) \div a
        sticky == IF (x.m * Pow2(s)) % a > 0 THEN 1 ELSE 0
    IN  RoundTo(2 * q + sticky, x.e - s - 1)

\* the product y * a is a float: rounding it changes nothing
ExactProduct(y, a) ==
    fl_mul(y, a).m * Pow2(fl_mul(y, a).e - y.e + Precision) =
        y.m * a * Pow2(Precision)

\* C14 as stated: dividing every column i of get_x(y_table, network) by A_i
\* gives back y_table exactly, element by element.
C14_RoundTripExact ==
    call.op = "get_x" =>
        /\ call.result.ok
        /\ \A i \in 1..NCols(composition.Y) :
              fl_div(call.result.table.data[1][i], Column(network, "A")[i]) =
                  composition.Y.data[1][i]

\* C14, amended: dividing column i of get_x(y_table, network) by A_i gives
\* back Y[r, i] exactly for every element whose product Y[r, i] * A_i is a
\* float, that is, was not rounded.
C14_RoundTrip ==
    call.op = "get_x" =>
        /\ call.result.ok
        /\ \A i \in 1..NCols(composition.Y) :
              ExactProduct(composition.Y.data[1][i], Column(network, "A")[i]) =>
                  fl_div(call.result.table.data[1][i], Column(network, "A")[i]) =
                      composition.Y.data[1][i]

\* an exact product by 3 (4 * 3 = 12) that comes back, next to a product
\* that was rounded and does not come back
C14_Witness ==
    /\ call.op = "get_x"
    /\ call.result.ok
    /\ NCols(composition.Y) = 2
    /\ Column(network, "A")[1] = 3
    /\ composition.Y.data[1][1] = [m |-> 4, e |-> 0]
    /\ ExactProduct(composition.Y.data[1][1], 3)
    /\ fl_div(call.result.table.data[1][1], 3) = composition.Y.data[1][1]
    /\ \E i \in 1..NCols(composition.Y) :
          /\ ~ExactProduct(composition.Y.data[1][i], Column(network, "A")[i])
          /\ fl_div(call.result.table.data[1][i], Column(network, "A")[i]) #
                composition.Y.data[1][i]


\* C15: get_most_abundant(table, network, n) returns min(n, len(network))
\* network rows, each with the maximum of its column of the table attached
\* as max_value, in decreasing order of max_value with equal values in network
\* order; every row left out is no larger than (and, when equal, comes after)
\* every row returned; the network passed in gains no max_value column.
C15_MostAbundant ==
    call.op = "get_most_abundant" =>
        LET t == call.result.table
            net == call.tracer_network
            len == NRows(net)
            max(p) == ColumnMax(composition[call.abu_var], p)
            pos(k) == t.index[k] + 1
            taken == {pos(k) : k \in 1..NRows(t)}
        IN  /\ call.result.ok
            /\ NRows(t) = IF call.n < len THEN call.n ELSE len
            /\ t.columns = net.columns \o <<"max_value">>
            /\ \A k \in 1..NRows(t) :
                  /\ pos(k) \in 1..len
                  /\ t.isotope[k] = net.isotope[pos(k)]
                  /\ t.data[k] = net.data[pos(k)] \o <<max(pos(k))>>
            /\ \A k, l \in 1..NRows(t) :
                  k < l => \/ max(pos(k)) > max(pos(l))
                           \/ max(pos(k)) = max(pos(l)) /\ pos(k) < pos(l)
            /\ \A p \in (1..len) \ taken : \A q \in taken :
                  \/ max(q) > max(p)
                  \/ max(q) = max(p) /\ q < p
            /\ network = net
            /\ "max_value" \notin Range(network.columns)

\* a call with 0 < n < len(network) that has to order equal maxima and to
\* leave out a row equal to one it returns
C15_Witness ==
    /\ call.op = "get_most_abundant"
    /\ call.result.ok
    /\ call.n = 2
    /\ NRows(call.tracer_network) = 3
    /\ call.result.table.index = <<0, 1>>
    /\ Column(call.result.table, "max_value") = <<1, 1>>
    /\ ColumnMax(composition[call.abu_var], 3) = 1
    /\ "max_value" \notin Range(network.columns)


(***************************************************************************)
(* Extraction from the raw files: one call of extract_table, or of         *)
(* extract_y on one raw file and a network, per behaviour.                 *)
(***************************************************************************)
MaxSteps == 3

ExtractSteps == UNION {[1..n -> Steps] : n \in 1..MaxSteps}
ExtractTableNames == TableNames \cup {"sums"}

ExtractTable ==
    /\ call.op = "init"
    /\ \E tracer_id \in TracerIds, model \in Models,
          table_name \in ExtractTableNames, tracer_steps \in ExtractSteps :
          /\ <<tracer_id, model>> \in Tracers
          /\ \E r \in {extract_table(tracer_id, tracer_steps, model, table_name,
                                     <<>>, NoFiles, NoTable, NoTable)} :
                call' = [op |-> "extract_table", tracer_id |-> tracer_id,
                         model |-> model, table_name |-> table_name,
                         tracer_steps |-> tracer_steps, result |-> r]
    /\ UNCHANGED <<cache, dirs, ncalls, saved, network, composition, yields, skynet_columns, tracer_obj, model_obj, procs>>

\* extract_y on the raw file of one step, with the network of a raw file or
\* its first rows
ExtractY ==
    /\ call.op = "init"
    /\ \E file \in DOMAIN RawFiles, of \in DOMAIN RawFiles, len \in 0..3 :
          \E net \in {extract_network(RawFiles[of])} :
             /\ net.ok
             /\ len <= NRows(net.table)
             /\ \E tracer_network \in {TakeRows(net.table, [k \in 1..len |-> k])} :
                   call' = [op |-> "extract_y", file |-> file,
                            tracer_network |-> tracer_network,
                            result |-> extract_y(RawFiles[file], tracer_network)]
    /\ UNCHANGED <<cache, dirs, ncalls, saved, network, composition, yields, skynet_columns, tracer_obj, model_obj, procs>>

NextExtract ==
    \/ ExtractTable
    \/ ExtractY

SpecExtract == Init /\ [][NextExtract]_vars

\* the raw file of step k of the call, and the rows before it in the join
StepFile(k) == RawFiles[tracer_filepath(call.tracer_id, call.tracer_steps[k], call.model)]
RowsBefore(k) == SeqSum([j \in 1..(k - 1) |-> StepRows(call.tracer_steps[j])])

\* C16: a successful extract_table over steps (s1, s2, ...) returns, for
\* columns and Y, the rows of s1 followed by those of s2 and so on, each as
\* extracted from that step's file alone, and for X those rows of Y times the
\* mass numbers; the row count is the sum of the steps' row counts and the
\* index runs from 0; the network is that of the first step's file, and the
\* Z and A arrays of no other step are read.
C16_Join ==
    (call.op = "extract_table" /\ call.result.ok) =>
        LET t == call.result.table
            steps == call.tracer_steps
            first == extract_network(StepFile(1)).table
            total == RowsBefore(Len(steps) + 1)
            cell(k, r, i) ==
                IF call.table_name = "columns"
                THEN extract_columns(StepFile(k), <<>>).table.data[r][i]
                ELSE IF call.table_name = "Y"
                THEN StepFile(k).Y[r][i]
                ELSE StepFile(k).Y[r][i] * StepFile(1).A[i]
        IN  /\ \A sf \in call.result.reads :
                  sf[2] \in {"Z", "A"} => sf[1] = steps[1]
            /\ IF call.table_name = "network" THEN t = first
               ELSE /\ NRows(t) = total
                    /\ t.index = [r \in 1..total |-> r - 1]
                    /\ t.columns = IF call.table_name = "columns"
                                   THEN [k \in DOMAIN config_columns |->
                                            lower(config_columns[k])]
                                   ELSE first.isotope
                    /\ \A k \in DOMAIN steps : \A r \in 1..StepRows(steps[k]) :
                          \A i \in DOMAIN t.columns :
                             t.data[RowsBefore(k) + r][i] = cell(k, r, i)

\* a join of step 2 before step 1, whose mass numbers differ: the X table
\* has the three rows in that order, scaled by the mass numbers of step 2
C16_Witness ==
    /\ call.op = "extract_table"
    /\ call.result.ok
    /\ call.table_name = "X"
    /\ call.tracer_steps = <<2, 1>>
    /\ NRows(call.result.table) = 3
    /\ StepFile(1).A # StepFile(2).A
    /\ call.result.table.data[1] # call.result.table.data[2]
    /\ \E i \in 1..3 : call.result.table.data[2][i] # StepFile(2).Y[1][i] * StepFile(2).A[i]

\* C17: extract_y either returns a table with one column per network row,
\* labelled by the isotope names in network order and holding the raw array,
\* or fails with ColumnCountMismatch, which it does exactly when the raw
\* array's column count differs from the length of the network.
C17_ColumnCount ==
    call.op = "extract_y" =>
        LET y == RawFiles[call.file].Y
            len == NRows(call.tracer_network)
            t == call.result.table
        IN  IF \A r \in DOMAIN y : Len(y[r]) = len
            THEN /\ call.result.ok
                 /\ t.columns = call.tracer_network.isotope
                 /\ Len(t.columns) = len
                 /\ NRows(t) = Len(y)
                 /\ \A r \in DOMAIN y : Len(t.data[r]) = len /\ t.data[r] = y[r]
            ELSE /\ ~call.result.ok
                 /\ call.result.error = "ColumnCountMismatch"
                 /\ t = NoTable

\* both outcomes for one network of two isotopes: the damaged file, whose
\* array has two columns, is labelled; a whole file is refused
C17_Witness ==
    /\ call.op = "extract_y"
    /\ NRows(call.tracer_network) = 2
    /\ call.result.ok
    /\ call.result.table.columns = <<"n", "h1">>
    /\ \E file \in DOMAIN RawFiles :
          ~extract_y(RawFiles[file], call.tracer_network).ok


(***************************************************************************)
(* One Tracer object: its construction, then a bounded number of calls of  *)
(* its methods, against a cache directory that starts empty.               *)
(***************************************************************************)
NewTracer ==
    /\ call.op = "init"
    /\ \E tracer_id \in TracerIds, model \in Models, load_all \in BOOLEAN,
          steps \in StepLists, save \in BOOLEAN, reload \in BOOLEAN :
          /\ <<tracer_id, model>> \in Tracers
          /\ \E r \in {Tracer_init(cache, dirs, tracer_id, model, load_all,
                                   steps, save, reload)} :
                /\ tracer_obj' = IF r.value = NoObject THEN NoObject
                                  ELSE [r.value EXCEPT !.constructed = r.ok]
                /\ cache' = r.cache
                /\ dirs' = r.dirs
                /\ call' = [op |-> "Tracer", tracer_id |-> tracer_id,
                            model |-> model, load_all |-> load_all,
                            steps |-> steps, ok |-> r.ok, error |-> r.error]
    /\ UNCHANGED <<ncalls, saved, network, composition, yields, skynet_columns, model_obj, procs>>

\* a method called on a Tracer whose constructor has returned
TracerMethod ==
    /\ ncalls < MaxCalls
    /\ tracer_obj # NoObject
    /\ tracer_obj.constructed
    /\ \E method \in Range(Tracer_load_all_calls) \cup {"load_all"}
                         \cup Tracer_select_calls :
          \E r \in {Tracer_call(method, 1, cache, dirs, tracer_obj)} :
             /\ tracer_obj' = r.value
             /\ cache' = r.cache
             /\ dirs' = r.dirs
             /\ ncalls' = ncalls + 1
             /\ call' = [op |-> "Tracer." \o method,
                         tracer_id |-> tracer_obj.tracer_id,
                         model |-> tracer_obj.model, load_all |-> FALSE,
                         steps |-> tracer_obj.steps, ok |-> r.ok,
                         error |-> r.error]
    /\ UNCHANGED <<saved, network, composition, yields, skynet_columns, model_obj, procs>>

NextTracer ==
    \/ NewTracer
    \/ TracerMethod

SpecTracer == Init /\ [][NextTracer]_vars

\* every raw file and the input file of the tracer are there, and each raw
\* file holds all the fields, with one column of Y per isotope
WellFormed(tracer_id, model, steps) ==
    /\ stir_filepath(tracer_id, model) \in DOMAIN StirFiles
    /\ \A k \in DOMAIN steps :
          LET path == tracer_filepath(tracer_id, steps[k], model)
          IN  /\ path \in DOMAIN RawFiles
              /\ Range(config_columns) \cup {"Z", "A", "Y"} \subseteq DOMAIN RawFiles[path]
              /\ \A r \in DOMAIN RawFiles[path].Y :
                    Len(RawFiles[path].Y[r]) = Len(RawFiles[path].Z)

RanAt(method) == ColumnPos(tracer_obj.ran, method)

\* C19: Tracer(..., load_all=True) on present, well-formed files returns with
\* files, columns, network, X and Y, the grouped sums and the sumy, abar and
\* zbar columns set, the network loaded before the composition and the
\* composition before the sums and the derived columns; with load_all=False
\* it returns with files, network, composition and sums unset.
C19_LoadAll ==
    (call.op = "Tracer" /\ WellFormed(call.tracer_id, call.model, call.steps)) =>
        /\ call.ok
        /\ IF call.load_all
           THEN /\ tracer_obj.files # NoFiles
                /\ tracer_obj.skynet # NoTable
                /\ tracer_obj.network # NoTable
                /\ tracer_obj.composition.X # NoTable
                /\ tracer_obj.composition.Y # NoTable
                /\ tracer_obj.sums # None
                /\ {"sumy", "abar", "zbar"} \subseteq Range(tracer_obj.skynet.columns)
                /\ 0 < RanAt("load_network")
                /\ RanAt("load_network") < RanAt("load_composition")
                /\ RanAt("load_composition") < RanAt("load_sums")
                /\ RanAt("load_composition") < RanAt("get_sumy_abar")
                /\ RanAt("load_composition") < RanAt("get_zbar")
           ELSE /\ tracer_obj.files = NoFiles
                /\ tracer_obj.network = NoTable
                /\ tracer_obj.composition = NoComposition
                /\ tracer_obj.sums = None


\* C24: on a Tracer built with load_all=False over present, well-formed
\* files, get_sumy_abar and get_zbar run the load steps that have not run and
\* return, with the Tracer's columns, network and composition loaded and the
\* columns sumy and abar, or zbar, in the columns table.
C24_EnsureLoaded ==
    (/\ call.op \in {"Tracer.get_sumy_abar", "Tracer.get_zbar"}
     /\ WellFormed(call.tracer_id, call.model, call.steps)) =>
        /\ call.ok
        /\ tracer_obj.skynet # NoTable
        /\ tracer_obj.network # NoTable
        /\ tracer_obj.composition # NoComposition
        /\ call.op = "Tracer.get_sumy_abar"
              => {"sumy", "abar"} \subseteq Range(tracer_obj.skynet.columns)
        /\ call.op = "Tracer.get_zbar"
              => "zbar" \in Range(tracer_obj.skynet.columns)

DerivedColumns == {"sumy", "abar", "zbar"}

\* the operations that C27 is about, as the calls are named
FrameOps ==
    {"Tracer.get_sumy_abar", "Tracer.get_zbar", "Tracer.get_most_abundant",
     "Tracer.select_composition", "Tracer.select_network"}

\* the table `after` is the table `before` with columns of `added` appended:
\* same rows, same labels and cells in the columns it had
Appended(before, after, added) ==
    /\ after.index = before.index
    /\ after.isotope = before.isotope
    /\ Len(after.columns) >= Len(before.columns)
    /\ SubSeq(after.columns, 1, Len(before.columns)) = before.columns
    /\ \A k \in (Len(before.columns) + 1)..Len(after.columns) :
          after.columns[k] \in added
    /\ \A r \in 1..NRows(before) :
          \A k \in 1..Len(before.columns) :
             before.columns[k] \notin added
                => after.data[r][k] = before.data[r][k]

\* C27: get_sumy_abar, get_zbar, get_most_abundant, select_composition and
\* select_network leave the Tracer's network, X, Y, sums and input tables and
\* every cache file as they were; its columns table keeps its rows and the
\* cells of the columns it had, and gains no column but sumy, abar and zbar.
\* No cache file ever holds one of those three columns.
C27_DerivedColumnsOnly ==
    [][(call'.op \in FrameOps) =>
          /\ tracer_obj'.network = tracer_obj.network
          /\ tracer_obj'.composition = tracer_obj.composition
          /\ tracer_obj'.sums = tracer_obj.sums
          /\ tracer_obj'.stir = tracer_obj.stir
          /\ tracer_obj'.files = tracer_obj.files
          /\ Appended(tracer_obj.skynet, tracer_obj'.skynet, DerivedColumns)
          /\ cache' = cache
          /\ \A f \in DOMAIN cache' :
                Range(cache'[f].columns) \cap DerivedColumns = {}]_vars

\* get_zbar on a Tracer that saved its columns table: the table of the
\* Tracer has gained zbar, the cache file has not
C27_Witness ==
    /\ call.op = "Tracer.get_zbar"
    /\ call.ok
    /\ tracer_obj.save
    /\ tracer_obj.skynet.columns =
          [k \in DOMAIN config_columns |-> lower(config_columns[k])]
              \o <<"zbar">>
    /\ tracer_cache_filepath(call.tracer_id, call.model, "columns") \in DOMAIN cache
    /\ tracer_obj.composition.Y # NoTable

(***************************************************************************)
(* One Tracer object on a cache directory that it shares: between its      *)
(* construction and its first call another user of the directory loads one *)
(* table of the same tracer, for steps of its own.                         *)
(***************************************************************************)
OtherLoadTable ==
    /\ call.op = "Tracer"
    /\ tracer_obj # NoObject
    /\ tracer_obj.constructed
    /\ \E table_name \in TableNames, tracer_steps \in StepLists :
          \E r \in {load_table(cache, dirs, tracer_obj.tracer_id,
                                tracer_obj.model, table_name, tracer_steps, <<>>,
                                NoFiles, NoTable, NoTable, FALSE, TRUE)} :
             /\ cache' = r.cache
             /\ dirs' = r.dirs
             /\ call' = [op |-> "load_table", tracer_id |-> tracer_obj.tracer_id,
                         model |-> tracer_obj.model, load_all |-> FALSE,
                         steps |-> tracer_obj.steps, table_name |-> table_name,
                         tracer_steps |-> tracer_steps, ok |-> r.ok,
                         error |-> r.error]
    /\ UNCHANGED <<ncalls, saved, network, composition, yields, skynet_columns, tracer_obj, model_obj, procs>>

NextShared ==
    \/ NewTracer
    \/ OtherLoadTable
    \/ TracerMethod

SpecShared == Init /\ [][NextShared]_vars

\* C22: whenever a Tracer holds its columns table and its composition, the
\* columns table, X and Y have the same number of rows, whatever load_table
\* calls (hits and misses, any reload and save) filled them.
C22_SameTimeAxis ==
    (/\ tracer_obj # NoObject
     /\ tracer_obj.skynet # NoTable
     /\ tracer_obj.composition # NoComposition) =>
        /\ NRows(tracer_obj.skynet) = NRows(tracer_obj.composition.X)
        /\ NRows(tracer_obj.skynet) = NRows(tracer_obj.composition.Y)

(***************************************************************************)
(* One Model object: its construction, then a bounded number of calls of   *)
(* its methods, against a cache directory that starts empty.               *)
(***************************************************************************)
ModelTracerIds == {[int |-> 2], [list |-> <<1>>], [list |-> <<1, 2>>],
                   [list |-> <<2, 1>>], [list |-> <<1, 2, 1>>]}

NewModel ==
    /\ call.op = "init"
    /\ \E model \in Models, tracer_ids \in ModelTracerIds,
          tracer_steps \in StepLists, reload \in BOOLEAN, save \in BOOLEAN,
          load_all \in BOOLEAN :
          \E r \in {Model_init(cache, dirs, model, tracer_ids, tracer_steps,
                               reload, save, load_all)} :
             /\ model_obj' = [r.value EXCEPT !.constructed = r.ok]
             /\ cache' = r.cache
             /\ dirs' = r.dirs
             /\ call' = [op |-> "Model", model |-> model,
                         load_all |-> load_all, ok |-> r.ok, error |-> r.error]
    /\ UNCHANGED <<ncalls, saved, network, composition, yields, skynet_columns, tracer_obj, procs>>

\* a method called on a Model whose constructor has returned
ModelMethod ==
    /\ ncalls < MaxCalls
    /\ model_obj # NoObject
    /\ model_obj.constructed
    /\ \E method \in Range(Model_load_all_calls) \cup {"load_all"} :
          \E r \in {Model_call(method, 1, cache, dirs, model_obj)} :
             /\ model_obj' = r.value
             /\ cache' = r.cache
             /\ dirs' = r.dirs
             /\ ncalls' = ncalls + 1
             /\ call' = [op |-> "Model." \o method, model |-> model_obj.model,
                         load_all |-> FALSE, ok |-> r.ok, error |-> r.error]
    /\ UNCHANGED <<saved, network, composition, yields, skynet_columns, tracer_obj, procs>>

NextModel ==
    \/ NewModel
    \/ ModelMethod

SpecModel == Init /\ [][NextModel]_vars

\* the input and raw files of every tracer of the model are there and whole
ModelWellFormed ==
    \A i \in DOMAIN model_obj.tracer_ids :
        WellFormed(model_obj.tracer_ids[i], model_obj.model, model_obj.tracer_steps)

ModelRanAt(method) == ColumnPos(model_obj.ran, method)

\* C18: Model.get_yields leaves, for k in {X, Y} and each isotope i of the
\* network, yields[k][i] = (1 / n_tracers) * the sum over the tracers of the
\* last row of the tracer's k table at column i, and
\* msun[i] = yields[X][i] * n_tracers * dmass, dmass = mass_grid[1] - mass_grid[0].
C18_FinalYields ==
    (call.op = "Model.get_yields" /\ ModelWellFormed) =>
        LET ids == model_obj.tracer_ids
            n_tracers == Len(ids)
            mass_grid == get_stir_mass_grid([list |-> ids], model_obj.model).value
            last(k, t, i) ==
                LET table == model_obj.tracers[ids[t]].composition[k]
                IN  table.data[NRows(table)][i]
        IN  /\ call.ok
            /\ \A i \in 1..NRows(model_obj.network) :
                  /\ \A k \in {"X", "Y"} :
                        n_tracers * Column(model_obj.yields, k)[i] =
                            SeqSum([t \in 1..n_tracers |-> last(k, t, i)])
                  /\ n_tracers > 1 =>
                        Column(model_obj.yields, "msun")[i] =
                            Column(model_obj.yields, "X")[i] * n_tracers
                                * (mass_grid[2] - mass_grid[1])

\* C20: Model.load_all goes through load_mass_grid, load_network, the load
\* of each tracer in tracer_ids order and get_yields in that order, and ends
\* with the yields computed.
C20_LoadAllOrder ==
    (call.op = "Model" /\ call.load_all /\ ModelWellFormed) =>
        LET ids == model_obj.tracer_ids
            loaded(i) == ModelRanAt(<<"load_tracer", ids[i]>>)
        IN  /\ call.ok
            /\ model_obj.mass_grid # None
            /\ model_obj.network # NoTable
            /\ \A i \in DOMAIN ids : model_obj.tracers[ids[i]] # NoObject
            /\ model_obj.yields # NoTable
            /\ 0 < ModelRanAt("load_mass_grid")
            /\ ModelRanAt("load_mass_grid") < ModelRanAt("load_network")
            /\ \A i \in DOMAIN ids :
                  /\ ModelRanAt("load_network") < loaded(i)
                  /\ loaded(i) < ModelRanAt("get_yields")
                  /\ \A j \in DOMAIN ids : i < j => loaded(i) < loaded(j)


\* C25: when get_yields has run on a Model over present, well-formed files,
\* every tracer of the Model is loaded (no slot is None, each holds a
\* constructed Tracer with its composition), the call has returned and the
\* yields are computed, also on a Model built with load_all=False.
C25_CheckLoaded ==
    (call.op = "Model.get_yields" /\ ModelWellFormed) =>
        /\ \A id \in DOMAIN model_obj.tracers :
              /\ model_obj.tracers[id] # NoObject
              /\ model_obj.tracers[id].constructed
              /\ model_obj.tracers[id].composition # NoComposition
        /\ call.ok
        /\ model_obj.yields # NoTable

\* the mass grid of the Model's tracers, as get_stir_mass_grid gives it
MassGrid == get_stir_mass_grid([list |-> model_obj.tracer_ids], model_obj.model).value

Uniform(grid) ==
    \A i \in 1..(Len(grid) - 1) : grid[i + 1] - grid[i] = grid[2] - grid[1]

\* C26: load_mass_grid on a Model of two or more tracers with their input
\* files raises IrregularGrid when the mass grid is not evenly spaced, and
\* otherwise returns with dmass = grid[1] - grid[0] and
\* total_mass = n_tracers * dmass.
C26_MassGrid ==
    (/\ call.op = "Model.load_mass_grid"
     /\ ModelWellFormed
     /\ Len(model_obj.tracer_ids) >= 2) =>
        IF Uniform(MassGrid)
        THEN /\ call.ok
             /\ model_obj.mass_grid = {MassGrid}
             /\ model_obj.dmass = {MassGrid[2] - MassGrid[1]}
             /\ model_obj.total_mass =
                   {Cardinality(DOMAIN model_obj.tracers)
                       * (MassGrid[2] - MassGrid[1])}
        ELSE /\ ~call.ok
             /\ call.error = "IrregularGrid"


(***************************************************************************)
(* Two processes on one cache directory, each in one call of               *)
(*   load_table(1, 's12', table_name, tracer_steps)                        *)
(* of tracers/load_save.py with reload=False and save=True.  The calls     *)
(* they make on the file system are the steps: the read of the cache file  *)
(* (load_table_cache), the extraction from the raw files (extract_table),  *)
(* and the write of the cache file (save_table_cache), which is the        *)
(* opening of the file, empty from then on, and the dump of the table      *)
(* into it.  pc is the step the process is to take next.                   *)
(***************************************************************************)
Procs == {1, 2}
RaceTables == {"columns", "Y"}

Idle ==
    [pc |-> "idle", table_name |-> "", tracer_steps |-> <<>>, seen |-> "",
     hit |-> FALSE, extracted |-> FALSE, wrote |-> FALSE, overwrote |-> FALSE,
     error |-> "", table |-> NoTable]

Other(p) == CHOOSE q \in Procs : q # p

InitRace ==
    /\ cache = <<>>
    /\ dirs = {}
    /\ ncalls = 0
    /\ call = NoCall
    /\ saved = <<>>
    /\ tracer_obj = NoObject
    /\ model_obj = NoObject
    /\ network = NoTable
    /\ composition = [X |-> NoTable, Y |-> NoTable]
    /\ yields = NoTable
    /\ skynet_columns = NoTable
    /\ procs = [p \in Procs |-> Idle]

\* the process enters load_table: table = None, table_name is valid
RaceCall(p) ==
    /\ procs[p].pc = "idle"
    /\ \E table_name \in RaceTables, tracer_steps \in StepLists :
          procs' = [procs EXCEPT ![p] =
                       [Idle EXCEPT !.pc = "check", !.table_name = table_name,
                                    !.tracer_steps = tracer_steps]]
    /\ call' = [op |-> "load_table", proc |-> p]
    /\ UNCHANGED <<cache, dirs, ncalls, saved, network, composition, yields, skynet_columns, tracer_obj, model_obj>>

\* try: table = load_table_cache(...)  except FileNotFoundError.  A file
\* that is open for writing and still empty cannot be unpickled: EOFError,
\* which load_table does not catch
RaceCheck(p) ==
    /\ procs[p].pc = "check"
    /\ \E r \in {load_table_cache(cache, 1, "s12", procs[p].table_name)} :
          procs' = [procs EXCEPT ![p] =
             IF r.ok /\ r.table = NoTable
             THEN [@ EXCEPT !.pc = "raised", !.error = "EOFError",
                            !.seen = procs[Other(p)].pc]
             ELSE IF r.ok
             THEN [@ EXCEPT !.pc = "done", !.hit = TRUE, !.table = r.table,
                            !.seen = procs[Other(p)].pc]
             ELSE [@ EXCEPT !.pc = "extract", !.seen = procs[Other(p)].pc]]
    /\ call' = [op |-> "load_table_cache", proc |-> p]
    /\ UNCHANGED <<cache, dirs, ncalls, saved, network, composition, yields, skynet_columns, tracer_obj, model_obj>>

\* if table is None: table = extract_table(...)
RaceExtract(p) ==
    /\ procs[p].pc = "extract"
    /\ \E r \in {extract_table(1, procs[p].tracer_steps, "s12",
                                 procs[p].table_name, <<>>, NoFiles, NoTable,
                                 NoTable)} :
          procs' = [procs EXCEPT ![p] =
             IF r.ok
             THEN [@ EXCEPT !.pc = "save", !.extracted = TRUE, !.table = r.table]
             ELSE [@ EXCEPT !.pc = "raised", !.error = r.error]]
    /\ call' = [op |-> "extract_table", proc |-> p]
    /\ UNCHANGED <<cache, dirs, ncalls, saved, network, composition, yields, skynet_columns, tracer_obj, model_obj>>

\* save_table_cache, first half: check_cache_path, and table.to_pickle opens
\* the file for writing, which empties it
RaceOpen(p) ==
    /\ procs[p].pc = "save"
    /\ \E w \in {save_table_cache(cache, dirs, NoTable, 1, "s12",
                                    procs[p].table_name)} :
          /\ cache' = w.cache
          /\ dirs' = w.dirs
          /\ procs' = [procs EXCEPT ![p] =
                [@ EXCEPT !.pc = "write",
                          !.overwrote = w.path \in DOMAIN cache]]
    /\ call' = [op |-> "open", proc |-> p]
    /\ UNCHANGED <<ncalls, saved, network, composition, yields, skynet_columns, tracer_obj, model_obj>>

\* save_table_cache, second half: the table is dumped and the file closed;
\* load_table returns the table
RaceWrite(p) ==
    /\ procs[p].pc = "write"
    /\ \E w \in {save_table_cache(cache, dirs, procs[p].table, 1, "s12",
                                    procs[p].table_name)} :
          /\ cache' = w.cache
          /\ dirs' = w.dirs
          /\ procs' = [procs EXCEPT ![p] = [@ EXCEPT !.pc = "done", !.wrote = TRUE]]
    /\ call' = [op |-> "to_pickle", proc |-> p]
    /\ UNCHANGED <<ncalls, saved, network, composition, yields, skynet_columns, tracer_obj, model_obj>>

NextRace ==
    \E p \in Procs :
        \/ RaceCall(p)
        \/ RaceCheck(p)
        \/ RaceExtract(p)
        \/ RaceOpen(p)
        \/ RaceWrite(p)

SpecRace == InitRace /\ [][NextRace]_vars

\* the steps at which a process has missed the cache and not yet written
Busy == {"extract", "save", "write"}

\* C30: nothing makes a process wait for the other: a call that has missed
\* the cache extracts and writes whatever the other process does, and two
\* calls for one key both extract only when one of them read the cache while
\* the other stood between its own read and the end of its write; when the
\* calls do not overlap in that way at most one of them extracts.
C30_SingleWriter ==
    /\ \A p \in Procs :
          /\ procs[p].hit => (~procs[p].extracted /\ ~procs[p].wrote)
          /\ (procs[p].pc = "done" /\ ~procs[p].hit)
                => (procs[p].extracted /\ procs[p].wrote)
    /\ \A p, q \in Procs :
          (/\ p # q
           /\ procs[p].table_name = procs[q].table_name
           /\ procs[p].extracted
           /\ procs[q].extracted)
          => (procs[p].seen \in Busy \/ procs[q].seen \in Busy)

\* both calls, for the same key and steps, found no file, extracted and
\* wrote; the second write replaced the file of the first
C30_Witness ==
    /\ \A p \in Procs :
          /\ procs[p].pc = "done"
          /\ ~procs[p].hit
          /\ procs[p].extracted
          /\ procs[p].wrote
    /\ procs[1].table_name = procs[2].table_name
    /\ procs[1].tracer_steps = procs[2].tracer_steps
    /\ \E p \in Procs : procs[p].overwrote /\ ~procs[Other(p)].overwrote
    /\ load_table_cache(cache, 1, "s12", procs[1].table_name).table = procs[1].table

====
